---- MODULE Spec2Model ----
(***************************************************************************)
(* The bcachefs journal (libbcachefs/journal.c): the reservation state     *)
(* word, the two rotating buffers, the pin fifo, the reservation fast and  *)
(* slow paths, journal_buf_switch, journal_entry_open, the flush paths and *)
(* bch2_journal_halt, as a state machine of concurrent threads.            *)
(*                                                                         *)
(* Code under the journal spinlock is cut at every access to the atomic    *)
(* reservation word, because the lock-free operations (the reservation     *)
(* fast path, bch2_journal_buf_put, bch2_journal_halt) interleave there.   *)
(* The inline helpers of journal.h, the writer of journal_io.c and the pin *)
(* code of journal_reclaim.c are modelled from the specification.          *)
(***************************************************************************)
EXTENDS Integers, Naturals, Sequences, FiniteSets, TLC

(* ------------------------------ bounds -------------------------------- *)

\* number of threads calling into the journal
NThreads == 2
\* no entry is closed once cur_seq has reached MaxSeq
MaxSeq == 3
\* largest u64s_min / u64s_max a caller asks for
MaxU64s == 2
\* largest entry capacity the device space query yields
MaxEntry == 3
\* number of pin objects of the higher layers
NPins == 1
\* slots of the pin fifo (JOURNAL_PIN, scaled down)
PinFifoSize == 3
\* number of devices the journal can write to
NDevs == 2
\* largest sequence number a blacklisted range ends at
MaxBlacklist == 2
MaxBuckets == 4

(* ----------------------- constants of the code ------------------------ *)

JOURNAL_ENTRY_CLOSED_VAL == 1048574
JOURNAL_ENTRY_ERROR_VAL == 1048575

Threads == 1..NThreads
Devs == 0..(NDevs - 1)
Pins == 1..NPins
Seqs == 1..(MaxSeq + 1)
EntrySizes == {MaxEntry}

NoRes == [seq |-> 0, offset |-> 0, u64s |-> 0, idx |-> 0]
NoCall == [op |-> "none", u64s_min |-> 0, u64s_max |-> 0, seq |-> 0, dev |-> -1,
           after_halt |-> FALSE]
\* bch2_dev_journal_init() of a device whose superblock names no journal
\* bucket: the arrays are empty and the kzalloc'ed indices are 0
bch2_dev_journal_init ==
    [buckets |-> <<>>, bucket_seq |-> <<>>, cur_idx |-> 0, last_idx |-> 0, nr |-> 0]

NoGrow == [pc |-> "idle", nr |-> 0, ret |-> "none"]

NoSw == [old_idx |-> 0, old_offset |-> 0, ret |-> FALSE]

VARIABLES
    reservations,     \* union journal_res_state: cur_entry_offset, idx, prev_buf_unwritten, count[0..1]
    cur_entry_u64s,   \* j->cur_entry_u64s
    seq,              \* j->seq
    pin_front,        \* j->pin.front
    pin_back,         \* j->pin.back
    pin_count,        \* journal_entry_pin_list.count of every slot, by sequence number
    last_seq_ondisk,  \* j->last_seq_ondisk
    buf,              \* j->buf[0..1].data: seq, u64s, last_seq
    need_write,       \* JOURNAL_NEED_WRITE
    lock,             \* holder of j->lock, 0 when free
    io,               \* sequence numbers of the journal writes in flight
    pins,             \* pin object -> sequence number it pins, 0 when not held
    pc,               \* per thread: position in the code
    call,             \* per thread: the call in progress and its arguments
    res,              \* per thread: struct journal_res
    ret,              \* per thread: what the last call returned
    woken,            \* per thread: a wake-up of j->wait is pending
    async_wait,       \* threads whose closure waits on j->async_wait
    sw,               \* per thread: locals of journal_buf_switch
    tickets,          \* history: the reservations granted in the entries the two buffers hold
    granted,          \* history: sequence numbers some reservation was granted in
    open_offset,      \* history: cur_entry_offset each entry was opened with
    open_u64s,        \* history: cur_entry_u64s each entry was opened with
    closed,           \* history: entries closed by journal_buf_switch
    dispatched,       \* history: entries handed to bch2_journal_write
    written,          \* history: outcome of each entry's write
    panic,            \* "none", or the BUG() that fired
    seq_blacklist,    \* j->seq_blacklist: the blacklisted ranges [start, end]
    started,          \* JOURNAL_STARTED
    key,              \* j->key: the devices the journal writes to
    wkey,             \* j->buf[0..1].key: the devices each buffer's write went to
    wait,             \* j->buf[0..1].wait: threads whose closure is on the list
    notified,         \* per thread: how often its closure was woken from a buffer's list
    ja,               \* struct journal_device of one device: buckets, bucket_seq, cur_idx, last_idx, nr
    grow              \* the call of __bch2_set_nr_journal_buckets in progress

vars == <<reservations, cur_entry_u64s, seq, pin_front, pin_back, pin_count,
          last_seq_ondisk, buf, need_write, lock, io, pins, pc, call, res, ret,
          woken, async_wait, sw, tickets, granted, open_offset, open_u64s, closed,
          dispatched, written,
          panic, seq_blacklist, started, key, wkey, wait, notified, ja, grow>>

jvars == <<reservations, cur_entry_u64s, seq, pin_front, pin_back, pin_count,
           last_seq_ondisk, buf, need_write, io>>
hvars == <<tickets, granted, open_offset, open_u64s, closed, dispatched, written>>
xvars == <<seq_blacklist, started, key, wkey, wait, notified, ja, grow>>

(* ------------------------- helpers (journal.h) ------------------------ *)

Min(a, b) == IF a <= b THEN a ELSE b

journal_cur_seq == seq
journal_last_seq == pin_front
fifo_used == pin_back - pin_front
fifo_free == PinFifoSize - fifo_used

journal_cur_buf == buf[reservations.idx]
journal_prev_buf == buf[1 - reservations.idx]

journal_entry_is_open == reservations.cur_entry_offset < JOURNAL_ENTRY_CLOSED_VAL

bch2_journal_error == reservations.cur_entry_offset = JOURNAL_ENTRY_ERROR_VAL

journal_state_count(s, idx) == s.count[idx]

journal_state_inc(s) == [s EXCEPT !.count[s.idx] = @ + 1]



\* journal_wake(): everybody inside a wait_event() on j->wait evaluates its
\* condition again, and the closures on j->async_wait are released
journal_wake ==
    /\ woken' = [t \in Threads |-> /\ pc[t] \notin {"idle", "hold", "done"}
                                    /\ call[t].op \in {"res_get", "flush_seq", "fs_stop", "dev_stop"}]
    /\ async_wait' = {}

NoWake == UNCHANGED <<woken, async_wait>>

\* no wake-up in this step; if the call of t returns in it, t has left its
\* wait_event()
NoWakeFor(t) ==
    /\ woken' = IF pc'[t] = "done" THEN [woken EXCEPT ![t] = FALSE] ELSE woken
    /\ UNCHANGED async_wait

(* ------------------------------- Init --------------------------------- *)

\* bch2_journal_buf_init(): the header of the buffer that becomes current
bch2_journal_buf_init(s) == [seq |-> s, u64s |-> 0, last_seq |-> 0]

ZeroBuf == [seq |-> 0, u64s |-> 0, last_seq |-> 0]

\* variant: journal_pin_new_entry() stepping j->seq by two
journal_pin_new_entry_skip(s, back, counts, count) ==
    [seq |-> s + 2, back |-> back + 1, counts |-> [counts EXCEPT ![back] = count]]

\* variant: journal_pin_new_entry() pushing a slot without ++j->seq
journal_pin_new_entry_same_seq(s, back, counts, count) ==
    [seq |-> s, back |-> back + 1, counts |-> [counts EXCEPT ![back] = count]]

\* variant: journal_pin_new_entry() pushing a slot with no reference
journal_pin_new_entry_no_ref(s, back, counts, count) ==
    [seq |-> s + 1, back |-> back + 1, counts |-> [counts EXCEPT ![back] = 0]]

\* journal_pin_new_entry(): j->seq is incremented and a slot is pushed
journal_pin_new_entry(s, back, counts, count) ==
    [seq |-> s + 1, back |-> back + 1, counts |-> [counts EXCEPT ![back] = count]]

\* bch2_fs_journal_init() followed by bch2_fs_journal_start() with an empty
\* blacklist: the first pin slot and the first buffer exist, no entry is open
Init ==
    /\ reservations = [cur_entry_offset |-> JOURNAL_ENTRY_CLOSED_VAL, idx |-> 0,
                       prev_buf_unwritten |-> 0, count |-> [i \in 0..1 |-> 0]]
    /\ cur_entry_u64s = 0
    /\ LET p == journal_pin_new_entry(0, 1, [s \in Seqs |-> 0], 1)
       IN  /\ seq = p.seq
           /\ pin_back = p.back
           /\ pin_count = p.counts
           /\ buf = [i \in 0..1 |-> IF i = 0 THEN bch2_journal_buf_init(p.seq) ELSE ZeroBuf]
    /\ pin_front = 1
    /\ last_seq_ondisk = 0
    /\ need_write = FALSE
    /\ lock = 0
    /\ io = {}
    /\ pins = [p \in Pins |-> 0]
    /\ pc = [t \in Threads |-> "idle"]
    /\ call = [t \in Threads |-> NoCall]
    /\ res = [t \in Threads |-> NoRes]
    /\ ret = [t \in Threads |-> "none"]
    /\ woken = [t \in Threads |-> FALSE]
    /\ async_wait = {}
    /\ sw = [t \in Threads |-> NoSw]
    /\ tickets = {}
    /\ granted = {}
    /\ open_offset = [s \in Seqs |-> 0]
    /\ open_u64s = [s \in Seqs |-> 0]
    /\ closed = {}
    /\ dispatched = [s \in Seqs |-> 0]
    /\ written = [s \in Seqs |-> "no"]
    /\ panic = "none"
    /\ seq_blacklist = {}
    /\ started = TRUE
    /\ key = Devs
    /\ wkey = [i \in 0..1 |-> {}]
    /\ wait = [i \in 0..1 |-> {}]
    /\ notified = [t \in Threads |-> 0]
    /\ ja = bch2_dev_journal_init
    /\ grow = NoGrow

(* ----------------------- bch2_fs_journal_start ------------------------ *)

\* the ranges a blacklist can hold
BlacklistRanges ==
    {r \in [start : 1..MaxBlacklist, end : 1..MaxBlacklist] : r.start <= r.end}

\* the journal as bch2_fs_journal_init() leaves it, with the blacklist the
\* mount has read: no pin slot, no buffer initialised, j->seq = 0
InitStart ==
    /\ reservations = [cur_entry_offset |-> JOURNAL_ENTRY_CLOSED_VAL, idx |-> 0,
                       prev_buf_unwritten |-> 0, count |-> [i \in 0..1 |-> 0]]
    /\ cur_entry_u64s = 0
    /\ seq = 0
    /\ pin_front = 1
    /\ pin_back = 1
    /\ pin_count = [s \in Seqs |-> 0]
    /\ buf = [i \in 0..1 |-> ZeroBuf]
    /\ last_seq_ondisk = 0
    /\ need_write = FALSE
    /\ lock = 0
    /\ io = {}
    /\ pins = [p \in Pins |-> 0]
    /\ pc = [t \in Threads |-> "idle"]
    /\ call = [t \in Threads |-> NoCall]
    /\ res = [t \in Threads |-> NoRes]
    /\ ret = [t \in Threads |-> "none"]
    /\ woken = [t \in Threads |-> FALSE]
    /\ async_wait = {}
    /\ sw = [t \in Threads |-> NoSw]
    /\ tickets = {}
    /\ granted = {}
    /\ open_offset = [s \in Seqs |-> 0]
    /\ open_u64s = [s \in Seqs |-> 0]
    /\ closed = {}
    /\ dispatched = [s \in Seqs |-> 0]
    /\ written = [s \in Seqs |-> "no"]
    /\ panic = "none"
    /\ seq_blacklist \in SUBSET BlacklistRanges
    /\ started = FALSE
    /\ key = Devs
    /\ wkey = [i \in 0..1 |-> {}]
    /\ wait = [i \in 0..1 |-> {}]
    /\ notified = [t \in Threads |-> 0]
    /\ ja = bch2_dev_journal_init
    /\ grow = NoGrow

\* variant: the loop over j->seq_blacklist taking the largest bl->start
journal_start_blacklist_by_start ==
    IF seq_blacklist = {} THEN 0
    ELSE LET m == CHOOSE r \in seq_blacklist : \A o \in seq_blacklist : o.start <= r.start
         IN  m.start

\* bch2_fs_journal_start(): blacklist = max(blacklist, bl->end) over
\* j->seq_blacklist, starting from 0
journal_start_blacklist ==
    IF seq_blacklist = {} THEN 0
    ELSE LET m == CHOOSE r \in seq_blacklist : \A o \in seq_blacklist : o.end <= r.end
         IN  m.end

\* bch2_fs_journal_start(): while (journal_cur_seq(j) < blacklist)
\* journal_pin_new_entry(j, 0)
RECURSIVE journal_start_skip(_, _, _, _)
journal_start_skip(s, back, counts, blacklist) ==
    IF s < blacklist
    THEN LET p == journal_pin_new_entry(s, back, counts, 0)
         IN  journal_start_skip(p.seq, p.back, p.counts, blacklist)
    ELSE [seq |-> s, back |-> back, counts |-> counts]

\* bch2_fs_journal_start(), under j->lock; fifo_push_ref() on a full fifo
\* yields NULL, which journal_pin_new_entry() dereferences
FsJournalStart ==
    /\ panic = "none"
    /\ ~started
    /\ lock = 0
    /\ started' = TRUE
    /\ LET k == journal_start_skip(seq, pin_back, pin_count, journal_start_blacklist)
           p == journal_pin_new_entry(k.seq, k.back, k.counts, 1)
       IN  IF p.back - pin_front > PinFifoSize
           THEN /\ panic' = "fifo_push_null"
                /\ UNCHANGED <<seq, pin_back, pin_count, buf>>
           ELSE /\ seq' = p.seq
                /\ pin_back' = p.back
                /\ pin_count' = p.counts
                /\ buf' = [buf EXCEPT ![reservations.idx] = bch2_journal_buf_init(p.seq)]
                /\ UNCHANGED panic
    /\ UNCHANGED <<reservations, cur_entry_u64s, pin_front, last_seq_ondisk,
                   need_write, lock, io, pins, pc, call, res, ret, woken,
                   async_wait, sw, hvars>>
    /\ UNCHANGED <<ja, grow, seq_blacklist, key, wkey, wait, notified>>

(* --------------------- reclaim (journal_reclaim.c) -------------------- *)

\* bch2_journal_reclaim_fast(): the new fifo front
RECURSIVE reclaim_front(_, _, _, _)
reclaim_front(front, back, counts, ondisk) ==
    IF front < back /\ counts[front] = 0 /\ front <= ondisk
    THEN reclaim_front(front + 1, back, counts, ondisk)
    ELSE front

(* ---------------------- bch2_journal_buf_put -------------------------- *)

\* bch2_journal_buf_put(j, idx, ...): drop one reservation of buffer idx; the
\* one that brings a closed buffer to zero runs bch2_journal_buf_put_slowpath,
\* which drops the entry's own pin reference and starts the write
buf_put_state(idx) == [reservations EXCEPT !.count[idx] = @ - 1]

buf_put_starts_write(idx) ==
    LET s == buf_put_state(idx)
    IN  s.idx # idx /\ journal_state_count(s, idx) = 0

\* bch2_journal_write(): the devices the entry is written to are those of
\* j->key at the time of the dispatch
bch2_journal_write_devs == key

\* closure_wake_up() on the wait lists of the buffers in bufs: the lists are
\* emptied and every closure on them is woken
closure_wake_up(bufs) ==
    /\ wait' = [i \in 0..1 |-> IF i \in bufs THEN {} ELSE wait[i]]
    /\ notified' = [t \in Threads |->
                       notified[t] + Cardinality({i \in bufs : t \in wait[i]})]

\* variant: bch2_journal_buf_put_slowpath() without its atomic_dec_bug() of
\* the entry's pin count
buf_put_slowpath_counts_kept(w) == pin_count

\* bch2_journal_buf_put_slowpath(): the entry being dispatched gives up the
\* reference it holds on its own pin slot
buf_put_slowpath_counts(w) == [pin_count EXCEPT ![w.seq] = @ - 1]

bch2_journal_buf_put(idx) ==
    LET s == buf_put_state(idx)
        w == buf[1 - s.idx]
    IN  IF reservations.count[idx] = 0
        THEN /\ panic' = "res_put_twice"
             /\ UNCHANGED <<reservations, pin_count, io, dispatched, wkey>>
        ELSE IF ~buf_put_starts_write(idx)
        THEN /\ reservations' = s
             /\ UNCHANGED <<pin_count, io, dispatched, panic, wkey>>
        ELSE IF pin_count[w.seq] = 0
        THEN /\ reservations' = s
             /\ panic' = "atomic_dec_bug"
             /\ UNCHANGED <<pin_count, io, dispatched, wkey>>
        ELSE /\ reservations' = s
             /\ pin_count' = buf_put_slowpath_counts(w)
             /\ io' = io \cup {w.seq}
             /\ dispatched' = [dispatched EXCEPT ![w.seq] = @ + 1]
             /\ wkey' = [wkey EXCEPT ![1 - s.idx] = bch2_journal_write_devs]
             /\ UNCHANGED panic

(* ------------------ journal_res_get_fast (journal.h) ------------------ *)

journal_res_get_fast_ok(u64s_min) ==
    /\ journal_entry_is_open
    /\ reservations.cur_entry_offset + u64s_min <= cur_entry_u64s

journal_res_get_fast_u64s(u64s_max) ==
    Min(u64s_max, cur_entry_u64s - reservations.cur_entry_offset)

\* the successful CAS of the fast path and the ticket it fills in
Grant(t) ==
    LET u == journal_res_get_fast_u64s(call[t].u64s_max)
        tk == [seq |-> buf[reservations.idx].seq,
               offset |-> reservations.cur_entry_offset,
               u64s |-> u, idx |-> reservations.idx]
    IN  /\ reservations' = [journal_state_inc(reservations)
                               EXCEPT !.cur_entry_offset = @ + u]
        /\ res' = [res EXCEPT ![t] = tk]
        /\ tickets' = tickets \cup {[seq |-> tk.seq, offset |-> tk.offset, u64s |-> tk.u64s,
                                      n |-> Cardinality({o \in tickets : o.seq = tk.seq})]}
        /\ granted' = granted \cup {tk.seq}
        /\ ret' = [ret EXCEPT ![t] = "ticket"]
        /\ woken' = [woken EXCEPT ![t] = FALSE]
        /\ UNCHANGED async_wait
        /\ pc' = [pc EXCEPT ![t] = "hold"]


(* ---------------------- returning from a call ------------------------- *)

\* the call of thread t returns r
Return(t, r) ==
    /\ pc' = [pc EXCEPT ![t] = "done"]
    /\ ret' = [ret EXCEPT ![t] = r]

\* the condition of wait_event() was false: the thread sleeps on j->wait until
\* it is woken (wait_event() evaluates the condition once before it queues
\* itself and once after, so a call starts with one evaluation to spare)
Park(t) ==
    /\ pc' = [pc EXCEPT ![t] = "parked"]
    /\ UNCHANGED ret

\* the caller has looked at what its call returned
Returned(t) ==
    /\ panic = "none"
    /\ pc[t] = "done"
    /\ pc' = [pc EXCEPT ![t] = "idle"]
    /\ call' = [call EXCEPT ![t] = NoCall]
    /\ ret' = [ret EXCEPT ![t] = "none"]
    /\ woken' = [woken EXCEPT ![t] = FALSE]
    /\ UNCHANGED <<jvars, hvars, lock, pins, res, sw, async_wait, panic>>
    /\ UNCHANGED xvars

\* a sleeper on j->wait that was woken evaluates its condition again
Wakeup(t) ==
    /\ panic = "none"
    /\ pc[t] = "parked"
    /\ woken[t]
    /\ woken' = [woken EXCEPT ![t] = FALSE]
    /\ pc' = [pc EXCEPT ![t] = IF call[t].op = "res_get" THEN "rg_fast"
                                ELSE IF call[t].op = "fs_stop" THEN "stop_check"
                                ELSE IF call[t].op = "dev_stop" THEN "dev_check"
                                ELSE "fs_check"]
    /\ UNCHANGED <<jvars, hvars, lock, pins, call, res, ret, sw, async_wait, panic>>
    /\ UNCHANGED xvars

(* ------------------- bch2_journal_res_get and put --------------------- *)

\* bch2_journal_res_get(j, res, u64s_min, u64s_max) is called
ResGetCall(t, u64s_min, u64s_max) ==
    /\ panic = "none"
    /\ started
    /\ pc[t] = "idle"
    /\ pc' = [pc EXCEPT ![t] = "rg_fast"]
    /\ call' = [call EXCEPT ![t] = [NoCall EXCEPT !.op = "res_get",
                                                  !.u64s_min = u64s_min,
                                                  !.u64s_max = u64s_max,
                                                  !.after_halt = bch2_journal_error]]
    /\ ret' = [ret EXCEPT ![t] = "none"]
    /\ woken' = [woken EXCEPT ![t] = TRUE]
    /\ UNCHANGED <<jvars, hvars, lock, pins, res, sw, async_wait, panic>>
    /\ UNCHANGED xvars

\* __journal_res_get(), retry: the fast path without the lock
ResGetFast(t) ==
    /\ panic = "none"
    /\ pc[t] = "rg_fast"
    /\ IF journal_res_get_fast_ok(call[t].u64s_min)
       THEN /\ Grant(t)
            /\ UNCHANGED <<open_offset, open_u64s, closed, dispatched, written>>
       ELSE /\ pc' = [pc EXCEPT ![t] = "rg_lock"]
            /\ UNCHANGED <<reservations, res, ret, woken, async_wait, hvars>>
    /\ UNCHANGED <<cur_entry_u64s, seq, pin_front, pin_back, pin_count,
                   last_seq_ondisk, buf, need_write, io, lock, pins, call,
                   sw, panic>>
    /\ UNCHANGED xvars

\* __journal_res_get(): spin_lock and the recheck of the fast path; on failure
\* the thread goes on to journal_buf_switch(j, false) with the lock held
ResGetLocked(t) ==
    /\ panic = "none"
    /\ pc[t] = "rg_lock"
    /\ lock = 0
    /\ IF journal_res_get_fast_ok(call[t].u64s_min)
       THEN /\ Grant(t)
            /\ UNCHANGED <<lock, sw, open_offset, open_u64s, closed, dispatched, written>>
       ELSE /\ lock' = t
            /\ pc' = [pc EXCEPT ![t] = "sw_cas"]
            /\ sw' = [sw EXCEPT ![t] = NoSw]
            /\ UNCHANGED <<reservations, res, ret, woken, async_wait, hvars>>
    /\ UNCHANGED <<cur_entry_u64s, seq, pin_front, pin_back, pin_count,
                   last_seq_ondisk, buf, need_write, io, pins, call, panic>>
    /\ UNCHANGED xvars

\* bch2_journal_res_put(): the reservation is released
ResPut(t) ==
    /\ panic = "none"
    /\ pc[t] = "hold"
    /\ bch2_journal_buf_put(res[t].idx)
    /\ pc' = [pc EXCEPT ![t] = "idle"]
    /\ res' = [res EXCEPT ![t] = NoRes]
    /\ call' = [call EXCEPT ![t] = NoCall]
    /\ ret' = [ret EXCEPT ![t] = "none"]
    /\ UNCHANGED <<cur_entry_u64s, seq, pin_front, pin_back, last_seq_ondisk, buf,
                   need_write, lock, pins, woken, async_wait, sw, tickets, granted,
                   open_offset, open_u64s, closed, written>>
    /\ UNCHANGED <<ja, grow, seq_blacklist, started, key, wait, notified>>

(* ------------------------- journal_buf_switch ------------------------- *)

\* variant: the CAS loop of journal_buf_switch() without its test of
\* prev_buf_unwritten
journal_buf_switch_result_no_inuse ==
    IF reservations.cur_entry_offset = JOURNAL_ENTRY_CLOSED_VAL THEN "ENTRY_CLOSED"
    ELSE IF reservations.cur_entry_offset = JOURNAL_ENTRY_ERROR_VAL THEN "ENTRY_ERROR"
    ELSE "CLOSE"

\* variant: the CAS loop of journal_buf_switch() testing the reservation count
\* of the current buffer where the code tests prev_buf_unwritten
journal_buf_switch_result_inuse_on_count ==
    IF reservations.cur_entry_offset = JOURNAL_ENTRY_CLOSED_VAL THEN "ENTRY_CLOSED"
    ELSE IF reservations.cur_entry_offset = JOURNAL_ENTRY_ERROR_VAL THEN "ENTRY_ERROR"
    ELSE IF journal_state_count(reservations, reservations.idx) # 0 THEN "ENTRY_INUSE"
    ELSE "CLOSE"

\* variant: the CAS loop of journal_buf_switch() without its test of
\* prev_buf_unwritten
journal_buf_switch_result_ignores_unwritten ==
    IF reservations.cur_entry_offset = JOURNAL_ENTRY_CLOSED_VAL THEN "ENTRY_CLOSED"
    ELSE IF reservations.cur_entry_offset = JOURNAL_ENTRY_ERROR_VAL THEN "ENTRY_ERROR"
    ELSE "CLOSE"

\* variant: the CAS loop of journal_buf_switch() answering INUSE for every
\* open entry
journal_buf_switch_result_inuse_when_open ==
    IF reservations.cur_entry_offset = JOURNAL_ENTRY_CLOSED_VAL THEN "ENTRY_CLOSED"
    ELSE IF reservations.cur_entry_offset = JOURNAL_ENTRY_ERROR_VAL THEN "ENTRY_ERROR"
    ELSE "ENTRY_INUSE"

\* what the CAS loop of journal_buf_switch() finds
journal_buf_switch_result ==
    IF reservations.cur_entry_offset = JOURNAL_ENTRY_CLOSED_VAL THEN "ENTRY_CLOSED"
    ELSE IF reservations.cur_entry_offset = JOURNAL_ENTRY_ERROR_VAL THEN "ENTRY_ERROR"
    ELSE IF reservations.prev_buf_unwritten = 1 THEN "ENTRY_INUSE"
    ELSE "CLOSE"

\* variant: the CAS of journal_buf_switch() leaving cur_entry_offset as it is
journal_buf_switch_new_not_closed ==
    [journal_state_inc(reservations)
        EXCEPT !.idx = 1 - @,
               !.prev_buf_unwritten = 1]

\* variant: the CAS of journal_buf_switch() without journal_state_inc()
journal_buf_switch_new_no_sentinel ==
    [reservations
        EXCEPT !.cur_entry_offset = JOURNAL_ENTRY_CLOSED_VAL,
               !.idx = 1 - @,
               !.prev_buf_unwritten = 1]

\* variant: the CAS of journal_buf_switch() without the store to
\* prev_buf_unwritten
journal_buf_switch_new_no_unwritten ==
    [journal_state_inc(reservations)
        EXCEPT !.cur_entry_offset = JOURNAL_ENTRY_CLOSED_VAL,
               !.idx = 1 - @]

\* the state the CAS of journal_buf_switch() installs
journal_buf_switch_new ==
    [journal_state_inc(reservations)
        EXCEPT !.cur_entry_offset = JOURNAL_ENTRY_CLOSED_VAL,
               !.idx = 1 - @,
               !.prev_buf_unwritten = 1]

\* variant: journal_buf_switch() without the store to buf->data->u64s
journal_buf_switch_header_no_u64s(b, old_offset, last_seq) ==
    [b EXCEPT !.last_seq = last_seq]

\* variant: journal_buf_switch() with the two header stores exchanged
journal_buf_switch_header_swapped(b, old_offset, last_seq) ==
    [b EXCEPT !.u64s = last_seq, !.last_seq = old_offset]

\* variant: journal_buf_switch() stamping the new journal_cur_seq() as last_seq
journal_buf_switch_header_cur_seq(b, old_offset, last_seq) ==
    [b EXCEPT !.u64s = old_offset, !.last_seq = b.seq + 1]

\* the header fields journal_buf_switch() stamps into the closed buffer
journal_buf_switch_header(b, old_offset, last_seq) ==
    [b EXCEPT !.u64s = old_offset, !.last_seq = last_seq]

\* __journal_res_get(): what it returns on JOURNAL_ENTRY_ERROR
res_get_entry_error == "RoFs"

\* journal_seq_flushed(): what it returns on JOURNAL_ENTRY_ERROR
seq_flushed_entry_error == "IoErr"

\* journal_flush_write(): its bool as the caller sees it
FlushWriteRet(b) == IF b THEN "true" ELSE "false"

\* journal_flush_write() returns b: to the write timer, which ignores it, or
\* to the wait_event() of bch2_fs_journal_stop(), which goes on waiting when
\* it is false
FlushWriteReturn(t, b) ==
    IF call[t].op = "fs_stop" /\ ~b THEN Park(t) ELSE Return(t, FlushWriteRet(b))

\* the CAS loop of journal_buf_switch(), called with the lock held, and what
\* each caller does with a result other than JOURNAL_UNLOCKED
BufSwitchCAS(t) ==
    /\ panic = "none"
    /\ pc[t] = "sw_cas"
    /\ lock = t
    /\ LET r == journal_buf_switch_result
           op == call[t].op
       IN  \/ /\ r = "CLOSE"
              /\ seq < MaxSeq
              /\ IF journal_state_count(journal_buf_switch_new, journal_buf_switch_new.idx) # 0
                 THEN /\ panic' = "buf_switch_count"
                      /\ UNCHANGED <<reservations, pc, sw, closed, ret, lock>>
                 ELSE /\ reservations' = journal_buf_switch_new
                      /\ sw' = [sw EXCEPT ![t] = [NoSw EXCEPT
                                              !.old_idx = reservations.idx,
                                              !.old_offset = reservations.cur_entry_offset]]
                      /\ closed' = closed \cup {buf[reservations.idx].seq}
                      /\ pc' = [pc EXCEPT ![t] = "sw_fin"]
                      /\ UNCHANGED <<panic, ret, lock>>
           \/ /\ r = "ENTRY_ERROR"
              /\ lock' = 0
              /\ IF op = "res_get" THEN Return(t, res_get_entry_error)
                 ELSE IF op = "flush_seq" THEN Return(t, seq_flushed_entry_error)
                 ELSE IF op = "flush_seq_async" THEN Return(t, "void")
                 ELSE FlushWriteReturn(t, sw[t].ret)
              /\ UNCHANGED <<reservations, sw, closed, panic>>
           \/ /\ r = "ENTRY_INUSE"
              /\ lock' = 0
              /\ IF op \in {"flush_write", "fs_stop"}
                 THEN FlushWriteReturn(t, sw[t].ret)
                 ELSE IF op = "flush_seq_async" THEN Return(t, "void")
                 ELSE Park(t)
              /\ UNCHANGED <<reservations, sw, closed, panic>>
           \/ /\ r = "ENTRY_CLOSED"
              /\ IF op = "res_get"
                 THEN /\ pc' = [pc EXCEPT ![t] = "open"]
                      /\ UNCHANGED <<panic, lock, ret>>
                 ELSE IF op \in {"flush_seq", "flush_seq_async"}
                 THEN /\ panic' = "entry_not_open"
                      /\ UNCHANGED <<pc, lock, ret>>
                 ELSE /\ lock' = 0
                      /\ FlushWriteReturn(t, sw[t].ret)
                      /\ UNCHANGED panic
              /\ UNCHANGED <<reservations, sw, closed>>
    /\ NoWakeFor(t)
    /\ UNCHANGED <<cur_entry_u64s, seq, pin_front, pin_back, pin_count,
                   last_seq_ondisk, buf, need_write, io, pins, call, res,
                   tickets, granted, open_offset, open_u64s, dispatched, written>>
    /\ IF journal_buf_switch_result = "ENTRY_ERROR" /\ call[t].op = "flush_seq_async"
       THEN closure_wake_up({reservations.idx})
       ELSE UNCHANGED <<wait, notified>>
    /\ UNCHANGED <<ja, grow, seq_blacklist, started, key, wkey>>

\* variant: journal_buf_switch() returning JOURNAL_UNLOCKED with the lock
\* still held
journal_buf_switch_unlock_kept(t) == t

\* the holder of j->lock after the spin_unlock() of journal_buf_switch(),
\* which precedes its return of JOURNAL_UNLOCKED
journal_buf_switch_unlock(t) == 0

\* journal_buf_switch() after its CAS: the closed buffer's header is stamped,
\* reclaim runs, the next entry gets its pin slot and its buffer, the lock is
\* dropped
BufSwitchFinish(t) ==
    /\ panic = "none"
    /\ pc[t] = "sw_fin"
    /\ lock = t
    /\ LET front == reclaim_front(pin_front, pin_back, pin_count, last_seq_ondisk)
           p == journal_pin_new_entry(seq, pin_back, pin_count, 1)
           old == sw[t].old_idx
       IN  /\ need_write' = FALSE
           /\ pin_front' = front
           /\ IF pin_back - front >= PinFifoSize
              THEN /\ panic' = "fifo_overflow"
                   /\ UNCHANGED <<seq, pin_back, pin_count, buf, lock, pc>>
              ELSE /\ seq' = p.seq
                   /\ pin_back' = p.back
                   /\ pin_count' = p.counts
                   /\ buf' = [i \in 0..1 |->
                                IF i = old
                                THEN journal_buf_switch_header(buf[i], sw[t].old_offset, front)
                                ELSE bch2_journal_buf_init(p.seq)]
                   /\ lock' = journal_buf_switch_unlock(t)
                   /\ pc' = [pc EXCEPT ![t] = "sw_put"]
                   /\ UNCHANGED panic
           /\ tickets' = {tk \in tickets : tk.seq = buf[old].seq}
           /\ IF front # pin_front THEN journal_wake ELSE NoWake
    /\ UNCHANGED <<reservations, cur_entry_u64s, last_seq_ondisk, io, pins, call,
                   res, ret, sw, granted, open_offset, open_u64s, closed,
                   dispatched, written>>
    /\ UNCHANGED xvars

\* journal_buf_switch(): bch2_journal_buf_put(j, old.idx, ...) drops the
\* reservation taken by the CAS; JOURNAL_UNLOCKED is returned to the caller
BufSwitchPut(t) ==
    /\ panic = "none"
    /\ pc[t] = "sw_put"
    /\ bch2_journal_buf_put(sw[t].old_idx)
    /\ sw' = [sw EXCEPT ![t] = NoSw]
    /\ IF call[t].op = "res_get"
       THEN pc' = [pc EXCEPT ![t] = "rg_fast"] /\ UNCHANGED ret
       ELSE IF call[t].op = "flush_seq"
       THEN Park(t)
       ELSE IF call[t].op = "flush_seq_async"
       THEN Return(t, "void")
       ELSE FlushWriteReturn(t, FALSE)
    /\ NoWake
    /\ UNCHANGED <<cur_entry_u64s, seq, pin_front, pin_back, last_seq_ondisk, buf,
                   need_write, lock, pins, call, res, tickets, granted,
                   open_offset, open_u64s, closed, written>>
    /\ UNCHANGED <<ja, grow, seq_blacklist, started, key, wait, notified>>

\* the bound on the number of entries: a caller that would close the entry
\* numbered MaxSeq gives up, which changes nothing in the journal
BoundReached(t) ==
    /\ panic = "none"
    /\ pc[t] = "sw_cas"
    /\ lock = t
    /\ journal_buf_switch_result = "CLOSE"
    /\ seq >= MaxSeq
    /\ lock' = 0
    /\ pc' = [pc EXCEPT ![t] = "idle"]
    /\ call' = [call EXCEPT ![t] = NoCall]
    /\ sw' = [sw EXCEPT ![t] = NoSw]
    /\ woken' = [woken EXCEPT ![t] = FALSE]
    /\ UNCHANGED <<jvars, hvars, pins, res, ret, async_wait, panic>>
    /\ UNCHANGED xvars

\* variant: journal_flush_write() starting from ret = true
journal_flush_write_ret_always == TRUE

\* journal_flush_write(): ret = !j->reservations.prev_buf_unwritten
journal_flush_write_ret == reservations.prev_buf_unwritten = 0

\* journal_flush_write() up to its call of journal_buf_switch(j, false)
journal_flush_write(t) ==
    /\ lock = 0
    /\ IF ~journal_entry_is_open
       THEN /\ FlushWriteReturn(t, journal_flush_write_ret)
            /\ UNCHANGED <<need_write, lock, sw>>
       ELSE /\ need_write' = TRUE
            /\ lock' = t
            /\ sw' = [sw EXCEPT ![t] = [NoSw EXCEPT !.ret = journal_flush_write_ret]]
            /\ pc' = [pc EXCEPT ![t] = "sw_cas"]
            /\ UNCHANGED ret
    /\ UNCHANGED <<reservations, cur_entry_u64s, seq, pin_front, pin_back,
                   pin_count, last_seq_ondisk, buf, io, pins, res, hvars, panic>>
    /\ UNCHANGED xvars

\* journal_flush_write(), from the write timer (journal_write_work)
FlushWrite(t) ==
    /\ panic = "none"
    /\ pc[t] = "idle"
    /\ call' = [call EXCEPT ![t] = [NoCall EXCEPT !.op = "flush_write",
                                                  !.after_halt = bch2_journal_error]]
    /\ journal_flush_write(t)
    /\ NoWake

\* bch2_fs_journal_stop() is called; the call remembers the entry that is
\* open at this moment
FsStopCall(t) ==
    /\ panic = "none"
    /\ pc[t] = "idle"
    /\ pc' = [pc EXCEPT ![t] = "stop_check"]
    /\ call' = [call EXCEPT ![t] = [NoCall EXCEPT
                   !.op = "fs_stop",
                   !.seq = IF journal_entry_is_open THEN journal_cur_seq ELSE 0,
                   !.after_halt = bch2_journal_error]]
    /\ ret' = [ret EXCEPT ![t] = "none"]
    /\ woken' = [woken EXCEPT ![t] = TRUE]
    /\ UNCHANGED <<jvars, hvars, lock, pins, res, sw, async_wait, panic>>
    /\ UNCHANGED xvars

\* bch2_fs_journal_stop(): one evaluation of journal_flush_write(j), the
\* condition of its wait_event()
FsStopCheck(t) ==
    /\ panic = "none"
    /\ pc[t] = "stop_check"
    /\ journal_flush_write(t)
    /\ NoWakeFor(t)
    /\ UNCHANGED call

(* -------------------------- journal_entry_open ----------------------- *)

\* what bch2_journal_entry_sectors() can leave for the entry, in u64s:
\* negative for its error (no device to write to), 0 for no space
EntrySpace == {-1} \cup {0} \cup EntrySizes

\* reclaim as bch2_journal_reclaim_work() and bch2_journal_reclaim_fast() run
\* it, under the lock
journal_reclaim ==
    LET front == reclaim_front(pin_front, pin_back, pin_count, last_seq_ondisk)
    IN  /\ pin_front' = front
        /\ IF front # pin_front THEN journal_wake ELSE NoWake

\* journal_entry_open() returned r <= 0 to its caller, which unlocks; on 0
\* ("Blocked") __journal_res_get() runs bch2_journal_reclaim_work() and its
\* wait_event() goes on, bch2_journal_open_seq_async() has put its closure
\* on j->async_wait, runs bch2_journal_reclaim_work() and returns 0
EntryOpenFails(t, r) ==
    /\ lock' = 0
    /\ IF r = "Blocked"
       THEN LET front == reclaim_front(pin_front, pin_back, pin_count, last_seq_ondisk)
            IN  /\ pin_front' = front
                /\ IF front # pin_front
                   THEN journal_wake
                   ELSE /\ UNCHANGED woken
                        /\ async_wait' = IF call[t].op = "open_seq_async"
                                         THEN async_wait \cup {t} ELSE async_wait
                /\ IF call[t].op = "res_get" THEN Park(t) ELSE Return(t, "0")
       ELSE /\ Return(t, r)
            /\ NoWakeFor(t)
            /\ UNCHANGED pin_front
    /\ UNCHANGED cur_entry_u64s

\* variant: journal_entry_open() without its test of the pin fifo
journal_entry_open_fifo_full_untested == FALSE

\* the first test of journal_entry_open(): !fifo_free(&j->pin)
journal_entry_open_fifo_full == fifo_free = 0

\* journal_entry_open() up to the store to cur_entry_u64s, lock held
EntryOpen(t, space) ==
    /\ panic = "none"
    /\ pc[t] = "open"
    /\ lock = t
    /\ IF journal_entry_open_fifo_full THEN EntryOpenFails(t, "Blocked")
       ELSE IF space < 0 THEN EntryOpenFails(t, "RoFs")
       ELSE IF space <= journal_cur_buf.u64s THEN EntryOpenFails(t, "Blocked")
       ELSE /\ cur_entry_u64s' = space
            /\ pc' = [pc EXCEPT ![t] = "open_cas"]
            /\ UNCHANGED <<lock, ret, woken, async_wait, pin_front>>
    /\ UNCHANGED <<reservations, seq, pin_back, pin_count,
                   last_seq_ondisk, buf, need_write, io, pins, call, res, sw,
                   hvars, panic>>
    /\ UNCHANGED xvars

\* variant: the CAS loop of journal_entry_open() without its test for
\* JOURNAL_ENTRY_ERROR_VAL
journal_entry_open_result_unchecked == "OPEN"

\* what the CAS loop of journal_entry_open() finds
journal_entry_open_result ==
    IF reservations.cur_entry_offset = JOURNAL_ENTRY_ERROR_VAL THEN "IoErr" ELSE "OPEN"

\* variant: the CAS of journal_entry_open() starting the entry one u64 past
\* what the buffer holds
journal_entry_open_new_skips_one ==
    [reservations EXCEPT !.cur_entry_offset = journal_cur_buf.u64s + 1]

\* the state the CAS of journal_entry_open() installs: the entry is open at
\* the offset the buffer's header gives
journal_entry_open_new ==
    [reservations EXCEPT !.cur_entry_offset = journal_cur_buf.u64s]

\* the CAS loop of journal_entry_open() and the return to the caller
EntryOpenCAS(t) ==
    /\ panic = "none"
    /\ pc[t] = "open_cas"
    /\ lock = t
    /\ lock' = 0
    /\ IF journal_entry_open_result = "IoErr"
       THEN /\ Return(t, "IoErr")
            /\ NoWakeFor(t)
            /\ UNCHANGED <<reservations, open_offset, open_u64s>>
       ELSE /\ reservations' = journal_entry_open_new
            /\ open_offset' = [open_offset EXCEPT ![journal_cur_buf.seq] = journal_cur_buf.u64s]
            /\ open_u64s' = [open_u64s EXCEPT ![journal_cur_buf.seq] = cur_entry_u64s]
            /\ journal_wake
            /\ IF call[t].op = "res_get"
               THEN pc' = [pc EXCEPT ![t] = "rg_fast"] /\ UNCHANGED ret
               ELSE Return(t, "1")
    /\ UNCHANGED <<cur_entry_u64s, seq, pin_front, pin_back, pin_count,
                   last_seq_ondisk, buf, need_write, io, pins, call, res, sw,
                   tickets, granted, closed, dispatched, written, panic>>
    /\ UNCHANGED xvars

\* bch2_journal_open_seq_async(j, seq, parent) up to journal_entry_open()
OpenSeqAsync(t, s) ==
    /\ panic = "none"
    /\ pc[t] = "idle"
    /\ t \notin async_wait
    /\ lock = 0
    /\ call' = [call EXCEPT ![t] = [NoCall EXCEPT !.op = "open_seq_async",
                                                  !.after_halt = bch2_journal_error]]
    /\ IF s > journal_cur_seq
       THEN /\ panic' = "open_seq_gt_cur_seq"
            /\ UNCHANGED <<pc, ret, lock>>
       ELSE IF s < journal_cur_seq \/ journal_entry_is_open
       THEN /\ Return(t, "1")
            /\ UNCHANGED <<lock, panic>>
       ELSE /\ lock' = t
            /\ pc' = [pc EXCEPT ![t] = "open"]
            /\ UNCHANGED <<ret, panic>>
    /\ NoWake
    /\ UNCHANGED <<jvars, hvars, pins, res, sw>>
    /\ UNCHANGED xvars

(* ------------------------------ halt ---------------------------------- *)

\* variant: bch2_journal_halt() also marking the previous buffer written
bch2_journal_halt_state_clears_unwritten ==
    [reservations EXCEPT !.cur_entry_offset = JOURNAL_ENTRY_ERROR_VAL,
                         !.prev_buf_unwritten = 0]

\* the state bch2_journal_halt() installs
bch2_journal_halt_state == [reservations EXCEPT !.cur_entry_offset = JOURNAL_ENTRY_ERROR_VAL]

\* bch2_journal_halt()
Halt ==
    /\ panic = "none"
    /\ ~bch2_journal_error
    /\ reservations' = bch2_journal_halt_state
    /\ journal_wake
    /\ closure_wake_up({0, 1})
    /\ UNCHANGED <<cur_entry_u64s, seq, pin_front, pin_back, pin_count,
                   last_seq_ondisk, buf, need_write, io, lock, pins, pc, call,
                   res, ret, sw, hvars, panic>>
    /\ UNCHANGED <<ja, grow, seq_blacklist, started, key, wkey>>

\* a second bch2_journal_halt() returns without a store or a wake-up, so it is
\* a step that changes nothing

(* --------------------- write completion (journal_io.c) ---------------- *)

\* what journal_write_done() publishes as last_seq_ondisk: the last_seq of
\* the entry that was written
journal_write_done_ondisk(b) == b.last_seq

\* journal_write_done(): the write of the previous buffer completes, with or
\* without an I/O error
WriteDone(ok) ==
    /\ panic = "none"
    /\ lock = 0
    /\ io # {}
    /\ ok => wkey[1 - reservations.idx] # {}
    /\ LET w == journal_prev_buf
           s == IF ok THEN reservations ELSE bch2_journal_halt_state
       IN  /\ reservations' = [s EXCEPT !.prev_buf_unwritten = 0]
           /\ last_seq_ondisk' = journal_write_done_ondisk(w)
           /\ written' = [written EXCEPT ![w.seq] = IF ok THEN "ok" ELSE "error"]
           /\ io' = io \ {w.seq}
    /\ journal_wake
    /\ closure_wake_up(IF ~ok /\ ~bch2_journal_error
                       THEN {0, 1}
                       ELSE {1 - reservations.idx})
    /\ UNCHANGED <<cur_entry_u64s, seq, pin_front, pin_back, pin_count, buf,
                   need_write, lock, pins, pc, call, res, ret, sw, tickets,
                   granted, open_offset, open_u64s, closed, dispatched, panic>>
    /\ UNCHANGED <<ja, grow, seq_blacklist, started, key, wkey>>

(* ----------------------- pins (journal_reclaim.c) --------------------- *)

\* bch2_journal_pin_add(j, seq, pin, flush_fn) by the holder of a reservation
\* on seq
PinAdd(t, p) ==
    /\ panic = "none"
    /\ pc[t] = "hold"
    /\ lock = 0
    /\ pins[p] = 0
    /\ pins' = [pins EXCEPT ![p] = res[t].seq]
    /\ pin_count' = [pin_count EXCEPT ![res[t].seq] = @ + 1]
    /\ UNCHANGED <<reservations, cur_entry_u64s, seq, pin_front, pin_back,
                   last_seq_ondisk, buf, need_write, io, lock, pc, call, res,
                   ret, woken, async_wait, sw, hvars, panic>>
    /\ UNCHANGED xvars

\* bch2_journal_pin_drop(j, pin): the last reference of an entry runs
\* bch2_journal_reclaim_fast()
PinDrop(p) ==
    /\ panic = "none"
    /\ lock = 0
    /\ pins[p] # 0
    /\ pins' = [pins EXCEPT ![p] = 0]
    /\ LET counts == [pin_count EXCEPT ![pins[p]] = @ - 1]
           front == IF counts[pins[p]] = 0
                    THEN reclaim_front(pin_front, pin_back, counts, last_seq_ondisk)
                    ELSE pin_front
       IN  /\ pin_count' = counts
           /\ pin_front' = front
           /\ IF front # pin_front THEN journal_wake ELSE NoWake
    /\ UNCHANGED <<reservations, cur_entry_u64s, seq, pin_back, last_seq_ondisk,
                   buf, need_write, io, lock, pc, call, res, ret, sw, hvars, panic>>
    /\ UNCHANGED xvars

\* bch2_journal_reclaim_work(), from its delayed work
Reclaim ==
    /\ panic = "none"
    /\ lock = 0
    /\ reclaim_front(pin_front, pin_back, pin_count, last_seq_ondisk) # pin_front
    /\ journal_reclaim
    /\ UNCHANGED <<reservations, cur_entry_u64s, seq, pin_back, pin_count,
                   last_seq_ondisk, buf, need_write, io, lock, pins, pc, call,
                   res, ret, sw, hvars, panic>>
    /\ UNCHANGED xvars

(* ------------------------ bch2_journal_flush_seq ---------------------- *)

\* bch2_journal_flush_seq(j, seq) is called, for an entry the caller has
\* written to
FlushSeqCall(t, s) ==
    /\ panic = "none"
    /\ pc[t] = "idle"
    /\ s \in granted
    /\ pc' = [pc EXCEPT ![t] = "fs_check"]
    /\ call' = [call EXCEPT ![t] = [NoCall EXCEPT !.op = "flush_seq", !.seq = s,
                                                  !.after_halt = bch2_journal_error]]
    /\ ret' = [ret EXCEPT ![t] = "none"]
    /\ woken' = [woken EXCEPT ![t] = TRUE]
    /\ UNCHANGED <<jvars, hvars, lock, pins, res, sw, async_wait, panic>>
    /\ UNCHANGED xvars

\* what journal_seq_flushed() answers without a buffer switch: "cur" when seq
\* is the current entry, else its return value (0 is "wait")
journal_seq_flushed_result(s) ==
    IF s > journal_cur_seq THEN "BUG"
    ELSE IF s = journal_cur_seq THEN "cur"
    ELSE IF s + 1 = journal_cur_seq /\ reservations.prev_buf_unwritten = 1
    THEN (IF bch2_journal_error THEN "IoErr" ELSE "wait")
    ELSE "OK"

\* journal_seq_flushed(), one evaluation of the condition of the
\* wait_event_killable() in bch2_journal_flush_seq(), up to journal_buf_switch()
SeqFlushed(t) ==
    /\ panic = "none"
    /\ pc[t] = "fs_check"
    /\ lock = 0
    /\ LET r == journal_seq_flushed_result(call[t].seq)
       IN  IF r = "BUG"
           THEN /\ panic' = "seq_gt_cur_seq"
                /\ UNCHANGED <<pc, ret, lock, need_write, sw>>
           ELSE IF r = "cur"
           THEN /\ need_write' = TRUE
                /\ sw' = [sw EXCEPT ![t] = NoSw]
                /\ lock' = t
                /\ pc' = [pc EXCEPT ![t] = "sw_cas"]
                /\ UNCHANGED <<ret, panic>>
           ELSE IF r = "wait"
           THEN /\ Park(t)
                /\ UNCHANGED <<lock, need_write, sw, panic>>
           ELSE /\ Return(t, r)
                /\ UNCHANGED <<lock, need_write, sw, panic>>
    /\ NoWakeFor(t)
    /\ UNCHANGED <<reservations, cur_entry_u64s, seq, pin_front, pin_back,
                   pin_count, last_seq_ondisk, buf, io, pins, call, res, hvars>>
    /\ UNCHANGED xvars

(* -------- bch2_journal_wait_on_seq, bch2_journal_flush_seq_async ------ *)

\* the closure of thread t is on the wait list of a buffer
Waiting(t) == t \in wait[0] \cup wait[1]

\* closure_wait(&j->buf[i].wait, parent); it returns false, and the caller
\* hits BUG(), when the closure is on a list already
closure_wait(t, i) ==
    IF Waiting(t)
    THEN /\ panic' = "closure_wait"
         /\ UNCHANGED wait
    ELSE /\ wait' = [wait EXCEPT ![i] = @ \cup {t}]
         /\ UNCHANGED panic

\* bch2_journal_wait_on_seq(j, seq, parent) and
\* bch2_journal_flush_seq_async(j, seq, parent) up to their test of
\* bch2_journal_error(), which they make with the lock held
WaitEnter(t, op, s) ==
    /\ panic = "none"
    /\ started
    /\ ~Waiting(t)
    /\ lock = 0
    /\ call' = [call EXCEPT ![t] = [NoCall EXCEPT !.op = op, !.seq = s,
                                                  !.after_halt = bch2_journal_error]]
    /\ IF s > journal_cur_seq
       THEN /\ panic' = "seq_gt_cur_seq"
            /\ UNCHANGED <<pc, ret, lock>>
       ELSE IF bch2_journal_error
       THEN /\ Return(t, "void")
            /\ UNCHANGED <<lock, panic>>
       ELSE /\ lock' = t
            /\ pc' = [pc EXCEPT ![t] = IF op = "wait_on_seq" THEN "wos_reg" ELSE "fsa_reg"]
            /\ UNCHANGED <<ret, panic>>
    /\ NoWake
    /\ UNCHANGED <<jvars, hvars, pins, res, sw>>
    /\ UNCHANGED xvars

WaitCall(t, op, s) ==
    /\ pc[t] = "idle"
    /\ WaitEnter(t, op, s)

WaitOnSeqCall(t, s) == WaitCall(t, "wait_on_seq", s)

FlushSeqAsyncCall(t, s) == WaitCall(t, "flush_seq_async", s)

\* bch2_journal_wait_on_seq() after its test of bch2_journal_error(): the
\* closure goes on the list of the current buffer, or on the list of the
\* previous buffer when that is unwritten
WaitOnSeqRegister(t) ==
    /\ pc[t] = "wos_reg"
    /\ lock = t
    /\ IF call[t].seq = journal_cur_seq
       THEN /\ closure_wait(t, reservations.idx)
            /\ lock' = 0
            /\ Return(t, "void")
       ELSE IF call[t].seq + 1 = journal_cur_seq /\ reservations.prev_buf_unwritten = 1
       THEN /\ closure_wait(t, 1 - reservations.idx)
            /\ pc' = [pc EXCEPT ![t] = "wait_recheck"]
            /\ UNCHANGED <<lock, ret>>
       ELSE /\ lock' = 0
            /\ Return(t, "void")
            /\ UNCHANGED <<wait, panic>>
    /\ NoWake
    /\ UNCHANGED <<jvars, hvars, pins, call, res, sw>>
    /\ UNCHANGED <<ja, grow, seq_blacklist, started, key, wkey, notified>>

\* after closure_wait() on the previous buffer and smp_mb(): "check if raced
\* with write completion (or failure)"
WaitRecheck(t) ==
    /\ panic = "none"
    /\ pc[t] = "wait_recheck"
    /\ lock = t
    /\ IF reservations.prev_buf_unwritten = 0 \/ bch2_journal_error
       THEN closure_wake_up({1 - reservations.idx})
       ELSE UNCHANGED <<wait, notified>>
    /\ lock' = 0
    /\ Return(t, "void")
    /\ NoWake
    /\ UNCHANGED <<jvars, hvars, pins, call, res, sw, panic>>
    /\ UNCHANGED <<ja, grow, seq_blacklist, started, key, wkey>>

\* bch2_journal_flush_seq_async() after its test of bch2_journal_error(), up
\* to journal_buf_switch()
FlushSeqAsyncRegister(t) ==
    /\ pc[t] = "fsa_reg"
    /\ lock = t
    /\ IF call[t].seq = journal_cur_seq
       THEN /\ closure_wait(t, reservations.idx)
            /\ need_write' = TRUE
            /\ sw' = [sw EXCEPT ![t] = NoSw]
            /\ pc' = [pc EXCEPT ![t] = "sw_cas"]
            /\ UNCHANGED <<lock, ret>>
       ELSE IF call[t].seq + 1 = journal_cur_seq /\ reservations.prev_buf_unwritten = 1
       THEN /\ closure_wait(t, 1 - reservations.idx)
            /\ pc' = [pc EXCEPT ![t] = "wait_recheck"]
            /\ UNCHANGED <<lock, ret, need_write, sw>>
       ELSE /\ lock' = 0
            /\ Return(t, "void")
            /\ UNCHANGED <<wait, panic, need_write, sw>>
    /\ NoWake
    /\ UNCHANGED <<reservations, cur_entry_u64s, seq, pin_front, pin_back,
                   pin_count, last_seq_ondisk, buf, io, hvars, pins, call, res>>
    /\ UNCHANGED <<ja, grow, seq_blacklist, started, key, wkey, notified>>

(* ------------------ __bch2_set_nr_journal_buckets --------------------- *)

BucketIds == 1..MaxBuckets

\* the buckets the allocator can hand out: those the ring does not hold
FreeBuckets == BucketIds \ {ja.buckets[i] : i \in 1..Len(ja.buckets)}

\* __array_insert_item(array, nr, pos) followed by array[pos] = v; positions
\* count from 0
array_insert_item(a, pos, v) ==
    SubSeq(a, 1, pos) \o <<v>> \o SubSeq(a, pos + 1, Len(a))

\* variant: the new bucket put at the position of cur_idx
set_nr_insert_at_cur(r, bucket) ==
    [buckets    |-> array_insert_item(r.buckets, r.cur_idx, bucket),
     bucket_seq |-> array_insert_item(r.bucket_seq, r.cur_idx, 0),
     cur_idx    |-> IF r.last_idx < r.nr /\ r.cur_idx >= r.last_idx
                    THEN r.cur_idx + 1 ELSE r.cur_idx,
     last_idx   |-> IF r.last_idx < r.nr THEN r.last_idx + 1 ELSE r.last_idx,
     nr         |-> r.nr + 1]

\* one turn of the loop of __bch2_set_nr_journal_buckets() with the lock
\* held: the new bucket goes to position last_idx with bucket_seq 0, and
\* the indices at or behind it move up
set_nr_insert(r, bucket) ==
    [buckets    |-> array_insert_item(r.buckets, r.last_idx, bucket),
     bucket_seq |-> array_insert_item(r.bucket_seq, r.last_idx, 0),
     cur_idx    |-> IF r.last_idx < r.nr /\ r.cur_idx >= r.last_idx
                    THEN r.cur_idx + 1 ELSE r.cur_idx,
     last_idx   |-> IF r.last_idx < r.nr THEN r.last_idx + 1 ELSE r.last_idx,
     nr         |-> r.nr + 1]

\* __bch2_set_nr_journal_buckets(ca, nr, ...) up to its loop: a request that
\* does not grow the ring returns 0, a failed allocation of the new arrays
\* or of the superblock field returns -ENOMEM
SetNrCall(n, mem) ==
    /\ panic = "none"
    /\ grow.pc \in {"idle", "done"}
    /\ grow' = IF n <= ja.nr THEN [pc |-> "done", nr |-> n, ret |-> "0"]
               ELSE IF ~mem THEN [pc |-> "done", nr |-> n, ret |-> "NoMem"]
               ELSE [pc |-> "loop", nr |-> n, ret |-> "none"]
    /\ UNCHANGED <<jvars, hvars, lock, pins, pc, call, res, ret, woken,
                   async_wait, sw, panic>>
    /\ UNCHANGED <<ja, seq_blacklist, started, key, wkey, wait, notified>>

\* one turn of the loop: the allocator gave a bucket and it is inserted
\* under j->lock; the loop ends with ret = 0 when ja->nr has reached nr
SetNrInsert(bucket) ==
    /\ panic = "none"
    /\ grow.pc = "loop"
    /\ ja.nr < grow.nr
    /\ lock = 0
    /\ bucket \in FreeBuckets
    /\ ja' = set_nr_insert(ja, bucket)
    /\ grow' = IF ja.nr + 1 < grow.nr THEN grow
               ELSE [grow EXCEPT !.pc = "done", !.ret = "0"]
    /\ UNCHANGED <<jvars, hvars, lock, pins, pc, call, res, ret, woken,
                   async_wait, sw, panic>>
    /\ UNCHANGED <<seq_blacklist, started, key, wkey, wait, notified>>

\* one turn of the loop: the allocator has no bucket (-ENOSPC)
SetNrAllocFails ==
    /\ panic = "none"
    /\ grow.pc = "loop"
    /\ ja.nr < grow.nr
    /\ grow' = [grow EXCEPT !.pc = "done", !.ret = "NoSpace"]
    /\ UNCHANGED <<jvars, hvars, lock, pins, pc, call, res, ret, woken,
                   async_wait, sw, panic>>
    /\ UNCHANGED <<ja, seq_blacklist, started, key, wkey, wait, notified>>

\* the highest sequence number written to the ring
RingSeq ==
    IF ja.nr = 0 THEN 0
    ELSE CHOOSE m \in {ja.bucket_seq[i] : i \in 1..ja.nr} :
             \A i \in 1..ja.nr : ja.bucket_seq[i] <= m

\* a journal write to the device: the entry goes to the bucket at cur_idx,
\* or cur_idx moves to the next bucket when that is not the bucket at
\* last_idx; bucket_seq[cur_idx] becomes the entry's sequence number
RingWrite(advance) ==
    /\ panic = "none"
    /\ lock = 0
    /\ ja.nr > 0
    /\ RingSeq < MaxSeq
    /\ LET next == (ja.cur_idx + 1) % ja.nr
           cur == IF advance THEN next ELSE ja.cur_idx
       IN  /\ advance => next # ja.last_idx
           /\ ja' = [ja EXCEPT !.cur_idx = cur,
                               !.bucket_seq[cur + 1] = RingSeq + 1]
    /\ UNCHANGED <<jvars, hvars, lock, pins, pc, call, res, ret, woken,
                   async_wait, sw, panic>>
    /\ UNCHANGED <<grow, seq_blacklist, started, key, wkey, wait, notified>>

\* reclaim releases the oldest bucket of the device: last_idx moves on, never
\* past cur_idx
RingReclaim ==
    /\ panic = "none"
    /\ lock = 0
    /\ ja.nr > 0
    /\ ja.last_idx # ja.cur_idx
    /\ ja' = [ja EXCEPT !.last_idx = (ja.last_idx + 1) % ja.nr]
    /\ UNCHANGED <<jvars, hvars, lock, pins, pc, call, res, ret, woken,
                   async_wait, sw, panic>>
    /\ UNCHANGED <<grow, seq_blacklist, started, key, wkey, wait, notified>>

(* -------------- bch2_journal_flush, bch2_journal_flush_async ---------- *)

\* variant: bch2_journal_flush() taking the current sequence number whether
\* or not the entry is open
bch2_journal_flush_seq_of_cur == journal_cur_seq

\* the sequence number bch2_journal_flush() and bch2_journal_flush_async()
\* choose under the lock: the current entry when it is open, else the one
\* before it; -1 when there is none (j->seq = 0)
bch2_journal_flush_seq_of ==
    IF journal_entry_is_open THEN journal_cur_seq
    ELSE IF journal_cur_seq # 0 THEN journal_cur_seq - 1
    ELSE -1

\* bch2_journal_flush(j) up to its call of bch2_journal_flush_seq()
FlushCall(t) ==
    /\ panic = "none"
    /\ pc[t] = "idle"
    /\ lock = 0
    /\ call' = [call EXCEPT ![t] = [NoCall EXCEPT !.op = "flush_seq",
                                                  !.seq = bch2_journal_flush_seq_of,
                                                  !.after_halt = bch2_journal_error]]
    /\ IF bch2_journal_flush_seq_of = -1
       THEN /\ Return(t, "OK")
            /\ UNCHANGED woken
       ELSE /\ pc' = [pc EXCEPT ![t] = "fs_check"]
            /\ ret' = [ret EXCEPT ![t] = "none"]
            /\ woken' = [woken EXCEPT ![t] = TRUE]
    /\ UNCHANGED <<jvars, hvars, lock, pins, res, sw, async_wait, panic>>
    /\ UNCHANGED xvars

\* bch2_journal_flush_async(j, parent) up to its call of
\* bch2_journal_flush_seq_async()
FlushAsyncCall(t) ==
    /\ panic = "none"
    /\ pc[t] = "idle"
    /\ ~Waiting(t)
    /\ lock = 0
    /\ call' = [call EXCEPT ![t] = [NoCall EXCEPT !.op = "flush_seq_async",
                                                  !.seq = bch2_journal_flush_seq_of,
                                                  !.after_halt = bch2_journal_error]]
    /\ IF bch2_journal_flush_seq_of = -1
       THEN Return(t, "void")
       ELSE /\ pc' = [pc EXCEPT ![t] = "fa_enter"]
            /\ UNCHANGED ret
    /\ NoWake
    /\ UNCHANGED <<jvars, hvars, lock, pins, res, sw, panic>>
    /\ UNCHANGED xvars

\* bch2_journal_flush_async(): the call of bch2_journal_flush_seq_async()
\* with the sequence number chosen
FlushAsyncEnter(t) ==
    /\ pc[t] = "fa_enter"
    /\ WaitEnter(t, "flush_seq_async", call[t].seq)

(* ----------------------- bch2_dev_journal_stop ------------------------ *)

\* variant: bch2_journal_writing_to_device() looking at the current buffer
bch2_journal_writing_to_device_cur(dev_idx) ==
    /\ reservations.prev_buf_unwritten = 1
    /\ dev_idx \in wkey[reservations.idx]

\* bch2_journal_writing_to_device(): the previous buffer is unwritten and
\* its key has a pointer to the device
bch2_journal_writing_to_device(dev_idx) ==
    /\ reservations.prev_buf_unwritten = 1
    /\ dev_idx \in wkey[1 - reservations.idx]

\* bch2_dev_journal_stop(j, ca): the device is dropped from j->key under the
\* lock
DevStopCall(t, d) ==
    /\ panic = "none"
    /\ started
    /\ pc[t] = "idle"
    /\ lock = 0
    /\ key' = key \ {d}
    /\ pc' = [pc EXCEPT ![t] = "dev_check"]
    /\ call' = [call EXCEPT ![t] = [NoCall EXCEPT !.op = "dev_stop", !.dev = d,
                                                  !.after_halt = bch2_journal_error]]
    /\ ret' = [ret EXCEPT ![t] = "none"]
    /\ woken' = [woken EXCEPT ![t] = TRUE]
    /\ UNCHANGED <<jvars, hvars, lock, pins, res, sw, async_wait, panic>>
    /\ UNCHANGED <<ja, grow, seq_blacklist, started, wkey, wait, notified>>

\* bch2_dev_journal_stop(): one evaluation of the condition of its
\* wait_event(), !bch2_journal_writing_to_device(j, ca->dev_idx)
DevStopCheck(t) ==
    /\ panic = "none"
    /\ pc[t] = "dev_check"
    /\ lock = 0
    /\ IF bch2_journal_writing_to_device(call[t].dev)
       THEN Park(t)
       ELSE Return(t, "stopped")
    /\ NoWakeFor(t)
    /\ UNCHANGED <<jvars, hvars, lock, pins, call, res, sw, panic>>
    /\ UNCHANGED xvars

(* ------------------------------ the system ---------------------------- *)

\* every request asks for up to MaxU64s, as the callers' u64s_max does not
\* depend on the journal
Next ==
    \/ \E t \in Threads : \E a \in 1..MaxU64s : ResGetCall(t, a, MaxU64s)
    \/ \E t \in Threads : ResGetFast(t)
    \/ \E t \in Threads : ResGetLocked(t)
    \/ \E t \in Threads : ResPut(t)
    \/ \E t \in Threads : Returned(t)
    \/ \E t \in Threads : Wakeup(t)
    \/ \E t \in Threads : BufSwitchCAS(t)
    \/ \E t \in Threads : BufSwitchFinish(t)
    \/ \E t \in Threads : BufSwitchPut(t)
    \/ \E t \in Threads : BoundReached(t)
    \/ \E t \in Threads : FlushWrite(t)
    \/ \E t \in Threads : \E space \in EntrySpace : EntryOpen(t, space)
    \/ \E t \in Threads : EntryOpenCAS(t)
    \/ \E t \in Threads : \E s \in 1..journal_cur_seq : OpenSeqAsync(t, s)
    \/ Halt
    \/ \E ok \in BOOLEAN : WriteDone(ok)
    \/ \E t \in Threads : \E p \in Pins : PinAdd(t, p)
    \/ \E p \in Pins : PinDrop(p)
    \/ Reclaim
    \/ \E t \in Threads : \E s \in 1..MaxSeq : FlushSeqCall(t, s)
    \/ \E t \in Threads : SeqFlushed(t)

Spec == Init /\ [][Next]_vars

(* ------------------------------ properties ---------------------------- *)

ResGetAfterHalt(t) == call[t].op = "res_get" /\ call[t].after_halt

\* C1: a res_get that was called after bch2_journal_halt() returns IoErr,
\* never a ticket and never another error
C1_AfterHaltIoErr ==
    \A t \in Threads :
        ResGetAfterHalt(t) /\ pc[t] \in {"done", "hold"} => ret[t] = "IoErr"

\* C2: a flush_seq(seq) that returned has returned OK if and only if the
\* write of entry seq completed without an error
C2_FlushSeqOkIffWritten ==
    \A t \in Threads :
        call[t].op = "flush_seq" /\ pc[t] = "done"
            => (ret[t] = "OK" <=> written[call[t].seq] = "ok")

\* C3: ERROR is absorbing: no step takes cur_entry_offset away from the
\* ERROR sentinel
C3_ErrorAbsorbing == [][bch2_journal_error => bch2_journal_error']_vars

\* the journal is in ERROR and the CAS of journal_entry_open(), a buffer
\* switch and a write completion have run on it
C3_Witness ==
    /\ bch2_journal_error
    /\ \E t \in Threads : pc[t] = "done" /\ ret[t] = "IoErr" /\ call[t].op = "res_get"
    /\ \E t \in Threads : pc[t] = "done" /\ call[t].op = "flush_write" /\ call[t].after_halt

TicketsOf(s) == {tk \in tickets : tk.seq = s}

\* C4: tickets of one entry are pairwise disjoint, every ticket is for an
\* entry that was opened and lies between the offset the entry was opened with
\* and its cur_entry_u64s, and a holder's u64s is between the u64s_min and the
\* u64s_max it asked for
C4_TicketsDisjoint ==
    /\ \A a, b \in tickets :
          a # b /\ a.seq = b.seq
             => a.offset + a.u64s <= b.offset \/ b.offset + b.u64s <= a.offset
    /\ \A tk \in tickets :
          /\ tk.seq \in 1..journal_cur_seq
          /\ tk.u64s >= 1
          /\ open_offset[tk.seq] <= tk.offset
          /\ tk.offset + tk.u64s <= open_u64s[tk.seq]
    /\ \A t \in Threads :
          pc[t] = "hold"
             => /\ call[t].u64s_min <= res[t].u64s
                /\ res[t].u64s <= call[t].u64s_max
                /\ \E tk \in tickets : /\ tk.seq = res[t].seq
                                       /\ tk.offset = res[t].offset
                                       /\ tk.u64s = res[t].u64s

\* two writers hold tickets of the same entry, one of them cut down to what
\* was left of the entry
C4_Witness ==
    \E t1, t2 \in Threads :
        /\ t1 # t2
        /\ pc[t1] = "hold" /\ pc[t2] = "hold"
        /\ res[t1].seq = res[t2].seq
        /\ res[t2].u64s < call[t2].u64s_max

RECURSIVE SumU64s(_)
SumU64s(S) ==
    IF S = {} THEN 0
    ELSE LET tk == CHOOSE x \in S : TRUE IN tk.u64s + SumU64s(S \ {tk})

\* buffer i holds an entry whose header journal_buf_switch() has stamped
Stamped(i) == buf[i].seq # 0 /\ buf[i].seq < seq

C5_HeaderIsSum ==
    \A i \in 0..1 :
        Stamped(i) => buf[i].u64s = open_offset[buf[i].seq] + SumU64s(TicketsOf(buf[i].seq))

C6_SeqMonotone ==
    [][ /\ \A t \in Threads :
              res'[t] # res[t] /\ res'[t] # NoRes
                 => /\ res'[t].seq = journal_cur_seq
                    /\ \A g \in granted : g <= res'[t].seq
        /\ \/ seq' = seq
           \/ /\ seq' = seq + 1
              /\ \E t \in Threads : pc[t] = "sw_fin" /\ pc'[t] = "sw_put" ]_vars

\* a ticket of entry 2 is held after tickets of entry 1 were granted
C6_Witness ==
    /\ 1 \in granted
    /\ \E t \in Threads : pc[t] = "hold" /\ res[t].seq = 2

\* C7: at most one write is in flight; an entry is dispatched once, after it
\* and its predecessor were closed; the successor of an entry is closed only
\* after the entry's write was dispatched and has completed
C7_DispatchOrder ==
    /\ Cardinality(io) <= 1
    /\ \A n \in Seqs :
          /\ dispatched[n] <= 1
          /\ dispatched[n] > 0 => n \in closed /\ (n > 1 => n - 1 \in closed)
          /\ n \in io => dispatched[n] = 1 /\ written[n] = "no"
          /\ n + 1 \in closed => dispatched[n] = 1 /\ written[n] # "no"

\* entry 2 is in flight, after entry 1 was written
C7_Witness == io = {2} /\ written[1] = "ok" /\ 2 \in closed

\* C8: last_seq_ondisk <= last_seq <= cur_seq
C8_SeqOrder ==
    /\ last_seq_ondisk <= journal_last_seq
    /\ journal_last_seq <= journal_cur_seq

\* entry 1 was written and reclaimed, entry 3 is the current one
C8_Witness ==
    /\ last_seq_ondisk = 1
    /\ journal_last_seq = 2
    /\ journal_cur_seq = 3

\* C9: last_seq_ondisk never decreases
C9_OndiskMonotone == [][last_seq_ondisk' >= last_seq_ondisk]_vars

\* last_seq_ondisk has advanced twice, the second time with a write that
\* failed, after a pin was dropped
C9_Witness ==
    /\ last_seq_ondisk = 2
    /\ written[2] = "error"
    /\ bch2_journal_error

\* C10 as the specification states it: while a pin is held on seq,
\* last_seq_ondisk < seq
C10_PinAboveOndisk ==
    \A p \in Pins : pins[p] # 0 => last_seq_ondisk < pins[p]

\* C10 as the model has it: while a pin is held on seq, neither
\* last_seq_ondisk nor last_seq has passed seq, and the entry's slot counts
\* the pin
C10_PinNotBelowOndisk ==
    \A p \in Pins :
        pins[p] # 0
           => /\ last_seq_ondisk <= pins[p]
              /\ journal_last_seq <= pins[p]
              /\ pin_count[pins[p]] >= 1

\* a pin is held on entry 1 while entry 1 is on disk and entry 2 was written
C10_Witness ==
    \E p \in Pins :
        /\ pins[p] = 1
        /\ last_seq_ondisk = 1
        /\ written[2] # "no"

(* ------------------- C12: a pin holds last_seq back ------------------- *)

\* the newest entry whose write completed, 0 when there is none
NewestFlushed ==
    LET W == {e \in Seqs : written[e] = "ok"}
    IN  IF W = {} THEN 0 ELSE CHOOSE e \in W : \A o \in W : o <= e

\* bch2_journal_pin_drop(p) takes effect in this step, and p was the last
\* reference on its entry
DropsLastPin(p) ==
    /\ pins[p] # 0
    /\ pins'[p] = 0
    /\ pin_count[pins[p]] = 1

\* while pin p is held on seq s, last_seq does not pass s
PinHoldsBack(p) == (pins[p] # 0 /\ pins'[p] = pins[p]) => pin_front' <= pins[p]

ResGetBlocks(t) ==
    /\ call[t].op = "res_get"
    /\ pc[t] # "parked"
    /\ pc'[t] = "parked"

\* C14 as stated: res_get reports Blocked only in a state where the pin fifo
\* is full or the previous buffer is still being written
C14_BlockedOnlyFifoOrUnwritten ==
    [][\A t \in Threads :
          ResGetBlocks(t) =>
              fifo_free = 0 \/ reservations.prev_buf_unwritten = 1]_vars

\* C14 amended: res_get reports Blocked either from journal_buf_switch()
\* finding the previous buffer unwritten, or from journal_entry_open() finding
\* the pin fifo full or no room for an entry on the device; in every case the
\* reservation word, cur_seq and the entry size are left as they were
C14_BlockedCauses ==
    [][\A t \in Threads :
          ResGetBlocks(t) =>
              /\ \/ /\ pc[t] = "sw_cas"
                    /\ reservations.prev_buf_unwritten = 1
                    /\ journal_entry_is_open
                 \/ /\ pc[t] = "open"
                    /\ ~journal_entry_is_open
              /\ UNCHANGED <<reservations, seq, cur_entry_u64s, pin_back>>]_vars

\* a writer is blocked although the pin fifo has room and no write is in
\* flight: journal_entry_open() found no room on the device
C14_Witness ==
    \E t \in Threads :
        /\ call[t].op = "res_get"
        /\ pc[t] = "parked"
        /\ ~woken[t]
        /\ fifo_free > 0
        /\ reservations.prev_buf_unwritten = 0
        /\ reservations.cur_entry_offset = JOURNAL_ENTRY_CLOSED_VAL

(* --------------------------- C17: rollover ---------------------------- *)

\* the one writer of the rollover scenario
Writer == 1

\* entry sizes of the rollover scenario: every entry has room for a request
RolloverSizes == MaxU64s..MaxEntry

\* one writer that requests res_get(k, k) and releases, on devices that have
\* room, with writes that complete
NextRollover ==
    \/ \E k \in 1..MaxU64s : ResGetCall(Writer, k, k)
    \/ ResGetFast(Writer)
    \/ ResGetLocked(Writer)
    \/ ResPut(Writer)
    \/ Wakeup(Writer)
    \/ BufSwitchCAS(Writer)
    \/ BufSwitchFinish(Writer)
    \/ BufSwitchPut(Writer)
    \/ BoundReached(Writer)
    \/ \E space \in RolloverSizes : EntryOpen(Writer, space)
    \/ EntryOpenCAS(Writer)
    \/ WriteDone(TRUE)

SpecRollover == Init /\ [][NextRollover]_vars

\* C17: a res_get(k, k) that closes an entry which holds only tickets of k
\* u64s finds exactly floor(C / k) of them; the ticket it then gets is on
\* the current entry, at the entry's first offset when it is the first
\* ticket there; and between the close and the ticket it blocks only when the
\* pin fifo is full, never for the write of the entry it closed
C17_Rollover ==
    [][/\ (/\ pc[Writer] = "sw_cas"
           /\ pc'[Writer] = "sw_fin"
           /\ call[Writer].u64s_min = call[Writer].u64s_max
           /\ \A tk \in TicketsOf(seq) : tk.u64s = call[Writer].u64s_min)
          => /\ Cardinality(TicketsOf(seq))
                  = (open_u64s[seq] - open_offset[seq]) \div call[Writer].u64s_min
             /\ seq \in closed'
       /\ (pc[Writer] # "hold" /\ pc'[Writer] = "hold")
          => /\ res'[Writer].seq = seq
             /\ res'[Writer].u64s = call[Writer].u64s_min
             /\ TicketsOf(seq) = {} => res'[Writer].offset = open_offset[seq]
       /\ (pc[Writer] # "parked" /\ pc'[Writer] = "parked")
          => \/ pc[Writer] = "open" /\ fifo_free = 0
             \/ /\ pc[Writer] = "sw_cas"
                /\ journal_entry_is_open
                /\ reservations.prev_buf_unwritten = 1]_vars

\* the writer holds the first ticket of entry 2, which it opened after it
\* closed entry 1 full of tickets, while the write of entry 1 is in flight
C17_Witness ==
    /\ pc[Writer] = "hold"
    /\ res[Writer].seq = 2
    /\ res[Writer].offset = open_offset[2]
    /\ Cardinality(TicketsOf(1)) = open_u64s[1] \div res[Writer].u64s
    /\ \A tk \in TicketsOf(1) : tk.u64s = res[Writer].u64s
    /\ dispatched[1] = 1
    /\ written[1] = "no"
    /\ reservations.prev_buf_unwritten = 1

(* ---------------------- C16: bch2_fs_journal_stop --------------------- *)

\* the thread that calls bch2_fs_journal_stop()
Stopper == 2

\* a writer, the write timer's work done by bch2_fs_journal_stop(), writes
\* that complete or fail, and halt
NextStop ==
    \/ \E a \in 1..MaxU64s : ResGetCall(Writer, a, MaxU64s)
    \/ ResGetFast(Writer)
    \/ ResGetLocked(Writer)
    \/ ResPut(Writer)
    \/ \E t \in Threads : Returned(t)
    \/ \E t \in Threads : Wakeup(t)
    \/ \E t \in Threads : BufSwitchCAS(t)
    \/ \E t \in Threads : BufSwitchFinish(t)
    \/ \E t \in Threads : BufSwitchPut(t)
    \/ \E t \in Threads : BoundReached(t)
    \/ \E space \in EntrySizes : EntryOpen(Writer, space)
    \/ EntryOpenCAS(Writer)
    \/ Halt
    \/ \E ok \in BOOLEAN : WriteDone(ok)
    \/ FsStopCall(Stopper)
    \/ FsStopCheck(Stopper)

SpecStop == Init /\ [][NextStop]_vars

\* bch2_fs_journal_stop() of thread t returns in this step
StopReturns(t) ==
    /\ call[t].op = "fs_stop"
    /\ pc[t] # "done"
    /\ pc'[t] = "done"

\* what C16 and its amendment share: the wait of bch2_fs_journal_stop() ends
\* only with journal_flush_write() true, in a state where no entry is open
\* and no write is in flight, and not in the evaluation that closed an entry
StopQuiescent(t) ==
    /\ ret'[t] = "true"
    /\ ~journal_entry_is_open
    /\ reservations.prev_buf_unwritten = 0
    /\ io = {}
    /\ pc[t] # "sw_put"

\* C16 as stated: fs_journal_stop returns only after a state with no entry
\* open and no write in flight, an entry that was open when it was called has
\* been closed and dispatched by then, and the condition is not reported true
\* by the evaluation that closed an entry
C16_StopAfterClose ==
    [][\A t \in Threads :
          StopReturns(t)
             => /\ StopQuiescent(t)
                /\ call[t].seq # 0
                      => call[t].seq \in closed /\ dispatched[call[t].seq] = 1]_vars

\* C16 amended: as stated, except that on a halted journal the entry that
\* was open when stop was called is left unclosed and undispatched
C16_StopAfterCloseOrHalt ==
    [][\A t \in Threads :
          /\ StopReturns(t)
                => /\ StopQuiescent(t)
                   /\ call[t].seq # 0
                         => \/ /\ call[t].seq \in closed
                               /\ dispatched[call[t].seq] = 1
                               /\ written[call[t].seq] # "no"
                            \/ /\ bch2_journal_error
                               /\ call[t].seq = journal_cur_seq
                               /\ call[t].seq \notin closed
                               /\ dispatched[call[t].seq] = 0
          /\ (call[t].op = "fs_stop" /\ pc[t] = "sw_put" /\ pc'[t] # "sw_put")
                => pc'[t] = "parked"]_vars

\* bch2_fs_journal_stop() has returned after entry 1, open when it was
\* called, was closed and written
C16_Witness ==
    /\ pc[Stopper] = "done"
    /\ call[Stopper].op = "fs_stop"
    /\ call[Stopper].seq = 1
    /\ ret[Stopper] = "true"
    /\ 1 \in closed
    /\ written[1] = "ok"
    /\ ~bch2_journal_error

(* ------------------- C19: dispatch after release ---------------------- *)

\* thread t is inside journal_buf_switch() between its CAS and its own
\* bch2_journal_buf_put(), for the entry in buffer sw[t].old_idx
Switching(t) == pc[t] \in {"sw_fin", "sw_put"}

\* a writer holds a reservation on entry n
HeldBy(n) == {t \in Threads : pc[t] = "hold" /\ res[t].seq = n}

\* C19: an entry is dispatched at most once, by the step that releases the
\* last reservation on its buffer, when the entry is closed, its header is
\* stamped and no writer holds a ticket on it; the reservation
\* journal_buf_switch() takes in its CAS keeps the count of the closed buffer
\* above zero, and the entry undispatched, until journal_buf_switch()'s own
\* bch2_journal_buf_put(); a closed entry nobody holds any longer has been
\* dispatched
C19_DispatchAfterRelease ==
    [][/\ \A n \in Seqs :
             dispatched'[n] # dispatched[n]
                => /\ dispatched[n] = 0
                   /\ dispatched'[n] = 1
                   /\ n \in closed
                   /\ HeldBy(n)' = {}
                   /\ \A t \in Threads : Switching(t)' => buf[sw'[t].old_idx].seq # n
                   /\ \E i \in 0..1 :
                         /\ buf[i].seq = n
                         /\ Stamped(i)
                         /\ buf[i].u64s = open_offset[n] + SumU64s(TicketsOf(n))
                         /\ buf[i].last_seq \in 1..n
                         /\ reservations.count[i] = 1
                         /\ reservations'.count[i] = 0
       /\ \A t \in Threads :
             Switching(t)'
                => /\ reservations'.count[sw'[t].old_idx] >= 1
                   /\ buf'[sw'[t].old_idx].seq \in closed'
                   /\ dispatched'[buf'[sw'[t].old_idx].seq] = 0
       /\ \A n \in closed' :
             (/\ panic' = "none"
              /\ HeldBy(n)' = {}
              /\ \A t \in Threads : Switching(t)' => buf'[sw'[t].old_idx].seq # n)
                => dispatched'[n] = 1]_vars

\* entry 1 was closed while a writer held one of its two tickets, and was
\* dispatched once nobody held it any more
C19_Witness ==
    /\ dispatched[1] = 1
    /\ 1 \in io
    /\ Cardinality(TicketsOf(1)) = 2
    /\ HeldBy(1) = {}
    /\ \E t \in Threads : pc[t] = "hold" /\ res[t].seq = 2

(* ------------------ C20: what journal_buf_switch changes -------------- *)

\* thread t takes the step that ends the CAS loop of journal_buf_switch()
LeavesCAS(t) == pc[t] = "sw_cas" /\ pc'[t] # "sw_cas"

\* C20: the CAS loop of journal_buf_switch() either closes an open entry
\* whose predecessor is written, in one transition that adds a reservation on
\* the current buffer, sets cur_entry_offset to CLOSED, toggles idx and sets
\* prev_buf_unwritten, or (ERROR, INUSE, CLOSED) leaves the reservation word,
\* cur_seq, the pin fifo and NEED_WRITE as they were; the rest of
\* journal_buf_switch() touches the reservation word only to drop that
\* reservation, and nothing else closes an entry
C20_BufSwitchFrame ==
    [][/\ \A t \in Threads :
             LeavesCAS(t)
                => \/ /\ pc'[t] = "sw_fin"
                      /\ journal_entry_is_open
                      /\ reservations.prev_buf_unwritten = 0
                      /\ reservations'.cur_entry_offset = JOURNAL_ENTRY_CLOSED_VAL
                      /\ reservations'.idx = 1 - reservations.idx
                      /\ reservations'.prev_buf_unwritten = 1
                      /\ reservations'.count =
                             [reservations.count EXCEPT ![reservations.idx] = @ + 1]
                      /\ UNCHANGED <<seq, pin_front, pin_back, pin_count>>
                   \/ /\ pc'[t] # "sw_fin"
                      /\ UNCHANGED <<reservations, seq, pin_front, pin_back,
                                     pin_count, need_write>>
       /\ \A t \in Threads :
             /\ (pc[t] = "sw_fin" /\ pc'[t] # "sw_fin") => reservations' = reservations
             /\ (pc[t] = "sw_put" /\ pc'[t] # "sw_put")
                   => reservations' = [reservations EXCEPT !.count[sw[t].old_idx] = @ - 1]
       /\ (/\ reservations.cur_entry_offset # JOURNAL_ENTRY_CLOSED_VAL
           /\ reservations'.cur_entry_offset = JOURNAL_ENTRY_CLOSED_VAL)
             => \E t \in Threads : LeavesCAS(t) /\ pc'[t] = "sw_fin"]_vars

\* journal_buf_switch(), called with NEED_WRITE set, has just closed an
\* entry a writer still holds a reservation on
C20_Witness ==
    \E t \in Threads :
        /\ pc[t] = "sw_fin"
        /\ reservations.cur_entry_offset = JOURNAL_ENTRY_CLOSED_VAL
        /\ reservations.prev_buf_unwritten = 1
        /\ reservations.count[sw[t].old_idx] = 2
        /\ need_write

(* ----------------------- C11: reclaim progress ------------------------ *)

\* writers that take, pin and release reservations, writes that complete,
\* pins that are dropped, and the reclaim work item
NextReclaim ==
    \/ \E t \in Threads : ResGetCall(t, 1, MaxU64s)
    \/ \E t \in Threads : ResGetFast(t)
    \/ \E t \in Threads : ResGetLocked(t)
    \/ \E t \in Threads : ResPut(t)
    \/ \E t \in Threads : Wakeup(t)
    \/ \E t \in Threads : BufSwitchCAS(t)
    \/ \E t \in Threads : BufSwitchFinish(t)
    \/ \E t \in Threads : BufSwitchPut(t)
    \/ \E t \in Threads : BoundReached(t)
    \/ \E t \in Threads : \E space \in EntrySizes : EntryOpen(t, space)
    \/ \E t \in Threads : EntryOpenCAS(t)
    \/ WriteDone(TRUE)
    \/ \E t \in Threads : \E p \in Pins : PinAdd(t, p)
    \/ \E p \in Pins : PinDrop(p)
    \/ Reclaim

\* the steps a thread takes with j->lock held
LockedStep(t) ==
    \/ BufSwitchCAS(t)
    \/ BufSwitchFinish(t)
    \/ BoundReached(t)
    \/ \E space \in EntrySizes : EntryOpen(t, space)
    \/ EntryOpenCAS(t)

\* the reclaim work item is scheduled again and again and gets the lock; a
\* thread inside a spinlock section runs to its end
SpecReclaim ==
    /\ Init
    /\ [][NextReclaim]_vars
    /\ SF_vars(Reclaim)
    /\ \A t \in Threads : WF_vars(LockedStep(t))

\* entry x is on disk as the journal knows it (its write completed and
\* last_seq_ondisk has reached it) and no pin is held on an entry up to x
ReclaimDue(x) ==
    /\ written[x] = "ok"
    /\ x <= last_seq_ondisk
    /\ \A p \in Pins : pins[p] = 0 \/ pins[p] > x

NextStart ==
    \/ FsJournalStart
    \/ \E a \in 1..MaxU64s : ResGetCall(Writer, a, MaxU64s)
    \/ ResGetFast(Writer)
    \/ ResGetLocked(Writer)
    \/ ResPut(Writer)
    \/ Wakeup(Writer)
    \/ BufSwitchCAS(Writer)
    \/ BufSwitchFinish(Writer)
    \/ BufSwitchPut(Writer)
    \/ BoundReached(Writer)
    \/ \E space \in EntrySizes : EntryOpen(Writer, space)
    \/ EntryOpenCAS(Writer)
    \/ WriteDone(TRUE)

SpecStart == InitStart /\ [][NextStart]_vars

\* the largest end of a blacklisted range, 0 without a blacklist
MaxEnd ==
    IF seq_blacklist = {} THEN 0
    ELSE CHOOSE e \in {r.end : r \in seq_blacklist} :
             \A r \in seq_blacklist : r.end <= e

\* C18: bch2_fs_journal_start() leaves cur_seq one past the largest end of a
\* blacklisted range, with one pin slot of count 0 for each sequence number
\* up to that end and then the slot of the first entry, of count 1, in the
\* current buffer; from then on cur_seq is above the end of every range, and
\* no entry is opened, and no reservation granted, with a blacklisted
\* sequence number
C18_StartPastBlacklist ==
    [][/\ (~started /\ started' /\ panic' = "none")
             => /\ seq' = MaxEnd + 1
                /\ pin_front' = 1
                /\ pin_back' = MaxEnd + 2
                /\ \A n \in 1..MaxEnd : pin_count'[n] = 0
                /\ pin_count'[MaxEnd + 1] = 1
                /\ journal_cur_buf'.seq = MaxEnd + 1
                /\ journal_cur_buf'.u64s = 0
       /\ (started' /\ panic' = "none")
             => \A r \in seq_blacklist' :
                   /\ seq' > r.end
                   /\ \A n \in r.start..r.end :
                         /\ n \notin granted'
                         /\ n \notin closed'
                         /\ open_u64s'[n] = 0
                         /\ pin_count'[n] = 0]_vars

\* the journal was started with sequence number 1 blacklisted, and a writer
\* holds a reservation in entry 2, the first entry
C18_Witness ==
    /\ started
    /\ seq_blacklist = {[start |-> 1, end |-> 1]}
    /\ pin_count[1] = 0
    /\ pc[Writer] = "hold"
    /\ res[Writer].seq = 2
    /\ open_u64s[2] > 0

(* ------------------- C15: bch2_dev_journal_stop ----------------------- *)

\* the space query of journal_entry_open() when the journal has the devices
\* of j->key: its error when there is none
DevSpace == IF key = {} THEN {-1} ELSE EntrySizes

\* a writer, a thread that takes devices away from the journal, and writes
\* that complete or fail
NextDev ==
    \/ \E a \in 1..MaxU64s : ResGetCall(Writer, a, MaxU64s)
    \/ ResGetFast(Writer)
    \/ ResGetLocked(Writer)
    \/ ResPut(Writer)
    \/ \E t \in Threads : Returned(t)
    \/ \E t \in Threads : Wakeup(t)
    \/ BufSwitchCAS(Writer)
    \/ BufSwitchFinish(Writer)
    \/ BufSwitchPut(Writer)
    \/ BoundReached(Writer)
    \/ \E space \in DevSpace : EntryOpen(Writer, space)
    \/ EntryOpenCAS(Writer)
    \/ \E ok \in BOOLEAN : WriteDone(ok)
    \/ \E d \in Devs : DevStopCall(Stopper, d)
    \/ DevStopCheck(Stopper)

SpecDev == Init /\ [][NextDev]_vars

\* the buffers whose write is in flight
InFlight == {i \in 0..1 : buf[i].seq \in io}

\* C15: bch2_dev_journal_stop(dev) takes dev out of the journal's device set
\* in its first step and returns only in a state where no write in flight
\* goes to dev; an entry dispatched when dev is out of the set is written
\* without dev, so after the return no write in flight ever goes to dev; a
\* write that completes successfully went to at least one device
C15_DevStop ==
    [][/\ \A t \in Threads :
             /\ (call'[t].op = "dev_stop" /\ call[t].op # "dev_stop")
                   => call'[t].dev \notin key'
             /\ (call[t].op = "dev_stop" /\ pc[t] # "done" /\ pc'[t] = "done")
                   => /\ call[t].dev \notin key
                      /\ \A i \in InFlight : call[t].dev \notin wkey[i]
             /\ (call'[t].op = "dev_stop" /\ pc'[t] = "done")
                   => \A i \in InFlight' : call'[t].dev \notin wkey'[i]
       /\ \A n \in Seqs :
             dispatched'[n] # dispatched[n]
                => \E i \in InFlight' : buf[i].seq = n /\ wkey'[i] = key
       /\ \A n \in Seqs :
             (written[n] = "no" /\ written'[n] = "ok")
                => \E i \in InFlight : buf[i].seq = n /\ wkey[i] # {} /\ wkey[i] \subseteq Devs]_vars

\* bch2_dev_journal_stop() of device 1 has returned; entry 1 is written, and
\* entry 2, dispatched after the device was taken away, was written to device
\* 0 only
C15_Witness ==
    /\ pc[Stopper] = "done"
    /\ call[Stopper].op = "dev_stop"
    /\ call[Stopper].dev = 1
    /\ key = {0}
    /\ written[1] = "ok"
    /\ written[2] = "ok"
    /\ \E i \in 0..1 : buf[i].seq = 2 /\ wkey[i] = {0}

(* ---------- C13: waiters and bch2_journal_halt() ---------------------- *)

Waiter == 2

\* one thread writes and the write timer flushes, the other thread waits for
\* sequence numbers; bch2_journal_flush_seq_async() is called for an entry
\* its caller has written to
NextWait ==
    \/ \E a \in 1..MaxU64s : ResGetCall(Writer, a, MaxU64s)
    \/ ResGetFast(Writer)
    \/ ResGetLocked(Writer)
    \/ ResPut(Writer)
    \/ FlushWrite(Writer)
    \/ \E t \in Threads : Returned(t)
    \/ \E t \in Threads : Wakeup(t)
    \/ \E t \in Threads : BufSwitchCAS(t)
    \/ \E t \in Threads : BufSwitchFinish(t)
    \/ \E t \in Threads : BufSwitchPut(t)
    \/ \E t \in Threads : BoundReached(t)
    \/ \E space \in EntrySizes : EntryOpen(Writer, space)
    \/ EntryOpenCAS(Writer)
    \/ Halt
    \/ \E ok \in BOOLEAN : WriteDone(ok)
    \/ \E s \in 1..journal_cur_seq : WaitOnSeqCall(Waiter, s)
    \/ \E s \in 1..journal_cur_seq :
          /\ s \in granted
          /\ FlushSeqAsyncCall(Waiter, s)
    \/ WaitOnSeqRegister(Waiter)
    \/ FlushSeqAsyncRegister(Waiter)
    \/ WaitRecheck(Waiter)

\* a step of thread t between taking and releasing the lock, or its return
WaitStep(t) ==
    \/ WaitOnSeqRegister(t)
    \/ FlushSeqAsyncRegister(t)
    \/ WaitRecheck(t)
    \/ LockedStep(t)
    \/ BufSwitchPut(t)
    \/ Returned(t)

\* a thread that holds the spinlock runs on, and a write that was submitted
\* completes
SpecWait ==
    /\ Init
    /\ [][NextWait]_vars
    /\ \A t \in Threads : WF_vars(WaitStep(t))
    /\ WF_vars(\E ok \in BOOLEAN : WriteDone(ok))

\* C13: no continuation stays parked forever on the wait list of a buffer of
\* a journal that is in ERROR: a closure that bch2_journal_wait_on_seq() or
\* bch2_journal_flush_seq_async() put on a wait list is taken off it again
\* (woken), also when bch2_journal_halt() ran between the waiter's test of
\* bch2_journal_error() and its closure_wait()
C13_NoWaiterParkedInError ==
    \A t \in Threads : (Waiting(t) /\ bch2_journal_error) ~> ~Waiting(t)

(* ---------- C21: journal_entry_open() on a halted journal ------------- *)

\* thread t is inside journal_entry_open()
InEntryOpen(t) == pc[t] \in {"open", "open_cas"}

\* C21: journal_entry_open() called while the reservation state is ERROR
\* returns IoErr, whatever the fill level of the pin fifo and whatever
\* bch2_journal_entry_sectors() answers; bch2_journal_open_seq_async() called
\* on a halted journal does not return 0 and does not put its closure on
\* j->async_wait
C21_EntryOpenErrorIoErr ==
    [][\A t \in Threads :
          (/\ call[t].after_halt
           /\ InEntryOpen(t)
           /\ ~InEntryOpen(t)')
             => /\ ret'[t] = "IoErr"
                /\ t \notin async_wait']_vars

(* ---------- C22: the pin fifo never overflows ------------------------- *)

\* the number of live slots of the pin fifo: one for each sequence number
\* from journal_last_seq to journal_cur_seq
LiveSlots == journal_cur_seq - journal_last_seq + 1

\* C22: the pin fifo never overflows during operation: an entry is opened
\* only when the fifo has a free slot, nothing is pushed onto the fifo while
\* an entry is open, every push is the push of journal_buf_switch() and
\* finds a free slot, and the number of live slots never exceeds
\* PinFifoSize
C22_PinFifoNeverOverflows ==
    [][/\ panic' # "fifo_overflow"
       /\ LiveSlots' <= PinFifoSize
       /\ pin_back' - pin_front' <= PinFifoSize
       /\ (journal_entry_is_open' /\ ~journal_entry_is_open)
             => pin_back - pin_front < PinFifoSize
       /\ journal_entry_is_open => pin_back' = pin_back
       /\ pin_back' # pin_back
             => /\ \E t \in Threads : pc[t] = "sw_fin" /\ pc'[t] = "sw_put"
                /\ pin_back' = pin_back + 1
                /\ pin_back - pin_front < PinFifoSize]_vars

\* the fifo is full: two entries were closed, each push found a slot, and
\* a pin on entry 1 keeps the oldest slot; the third entry cannot be opened
C22_Witness ==
    /\ panic = "none"
    /\ journal_cur_seq = 3
    /\ journal_last_seq = 1
    /\ pin_back - pin_front = PinFifoSize
    /\ {1, 2} \subseteq closed
    /\ \E t \in Threads : pc[t] = "open"

(* ---------- C23: growing a device's journal ring ---------------------- *)

NextRing ==
    \/ \E n \in 0..MaxBuckets : \E mem \in BOOLEAN : SetNrCall(n, mem)
    \/ \E b \in BucketIds : SetNrInsert(b)
    \/ SetNrAllocFails
    \/ \E advance \in BOOLEAN : RingWrite(advance)
    \/ RingReclaim

SpecRing == Init /\ [][NextRing]_vars

\* the positions of ring r from last_idx round to cur_idx
RingLive(r) ==
    IF r.nr = 0 THEN {}
    ELSE {i \in 0..(r.nr - 1) :
            (i + r.nr - r.last_idx) % r.nr <= (r.cur_idx + r.nr - r.last_idx) % r.nr}

\* sequence a without its element at position pos, counted from 0
RemoveAt(a, pos) == SubSeq(a, 1, pos) \o SubSeq(a, pos + 2, Len(a))

\* the position in the ring after a step of the bucket the step added
NewPos ==
    CHOOSE p \in 0..(ja'.nr - 1) :
        \A i \in 1..ja.nr : ja.buckets[i] # ja'.buckets[p + 1]

\* a step that inserted a bucket keeps the ring that was there: cur_idx and
\* last_idx name the buckets they named, the old buckets keep their order and
\* their bucket_seq, the indices are inside the ring and the new bucket has
\* bucket_seq 0
InsertKeepsRing ==
    /\ ja'.nr = ja.nr + 1
    /\ ja.nr > 0 => /\ ja'.buckets[ja'.cur_idx + 1] = ja.buckets[ja.cur_idx + 1]
                    /\ ja'.buckets[ja'.last_idx + 1] = ja.buckets[ja.last_idx + 1]
    /\ RemoveAt(ja'.buckets, NewPos) = ja.buckets
    /\ RemoveAt(ja'.bucket_seq, NewPos) = ja.bucket_seq
    /\ ja'.cur_idx < ja'.nr
    /\ ja'.last_idx < ja'.nr
    /\ ja'.bucket_seq[NewPos + 1] = 0

\* a call with n <= nr changes nothing and returns 0
NoGrowthReturns ==
    (grow.pc # "loop" /\ grow' # grow /\ grow'.nr <= ja.nr)
       => ja' = ja /\ grow'.pc = "done" /\ grow'.ret = "0"

NextResGet ==
    \/ \E t \in Threads : \E a \in 1..MaxU64s : ResGetCall(t, a, MaxU64s)
    \/ \E t \in Threads : ResGetFast(t)
    \/ \E t \in Threads : ResGetLocked(t)
    \/ \E t \in Threads : ResPut(t)
    \/ \E t \in Threads : Returned(t)
    \/ \E t \in Threads : Wakeup(t)
    \/ \E t \in Threads : BufSwitchCAS(t)
    \/ \E t \in Threads : BufSwitchFinish(t)
    \/ \E t \in Threads : BufSwitchPut(t)
    \/ \E t \in Threads : BoundReached(t)
    \/ \E t \in Threads : \E space \in EntrySizes : EntryOpen(t, space)
    \/ \E t \in Threads : EntryOpenCAS(t)
    \/ Halt
    \/ \E ok \in BOOLEAN : WriteDone(ok)
    \/ \E t \in Threads : \E p \in Pins : PinAdd(t, p)
    \/ \E p \in Pins : PinDrop(p)
    \/ Reclaim

\* a step of thread t inside bch2_journal_res_get_slowpath(), or the release
\* of the reservation it holds
ResGetStep(t) ==
    \/ ResGetFast(t)
    \/ ResGetLocked(t)
    \/ Wakeup(t)
    \/ LockedStep(t)
    \/ BufSwitchPut(t)
    \/ ResPut(t)

\* fair scheduling: a thread that can run does, and a thread that spins on
\* j->lock gets it (the spinlock is fair); every write that was dispatched
\* completes; pins are dropped and reclaim runs
SpecResGet ==
    /\ Init
    /\ [][NextResGet]_vars
    /\ \A t \in Threads : WF_vars(ResGetStep(t))
    /\ \A t \in Threads : SF_vars(ResGetLocked(t))
    /\ WF_vars(\E ok \in BOOLEAN : WriteDone(ok))
    /\ \A p \in Pins : WF_vars(PinDrop(p))
    /\ WF_vars(Reclaim)

\* thread t is inside bch2_journal_res_get_slowpath()
InResGet(t) == call[t].op = "res_get" /\ pc[t] \notin {"idle", "hold", "done"}

HaltStep ==
    /\ ~bch2_journal_error
    /\ bch2_journal_error'
    /\ written' = written

\* C25: bch2_journal_halt() changes only cur_entry_offset: the reservation
\* counts of both buffers, idx, prev_buf_unwritten, the sequence number and
\* the pin fifo stay as they were, so a reservation that is held can still
\* be released and a write in flight can still complete; on a journal that
\* is in ERROR already bch2_journal_halt() is no step at all
C25_HaltFrame ==
    /\ [][HaltStep =>
            /\ reservations' = [reservations EXCEPT
                                   !.cur_entry_offset = JOURNAL_ENTRY_ERROR_VAL]
            /\ UNCHANGED <<cur_entry_u64s, seq, pin_front, pin_back, pin_count,
                           last_seq_ondisk, buf, need_write, io, lock, pins,
                           res, tickets, dispatched>>
            /\ \A t \in Threads : pc'[t] = pc[t]]_vars
    /\ [](bch2_journal_error =>
            /\ \A t \in Threads : pc[t] = "hold" => ENABLED ResPut(t)
            /\ (io # {} /\ lock = 0 /\ panic = "none") => ENABLED WriteDone(FALSE)
            /\ ~ENABLED Halt)

\* the journal was halted while thread 1 held a reservation in entry 2 and
\* the write of entry 1 was in flight; the write has completed since and
\* the reservation is still held
C25_Witness ==
    /\ bch2_journal_error
    /\ pc[1] = "hold"
    /\ res[1].seq = 2
    /\ journal_state_count(reservations, reservations.idx) = 1
    /\ written[1] = "ok"
    /\ written[2] = "no"
    /\ reservations.prev_buf_unwritten = 0

(* ---------- C26: the BUG()s of the flush paths ------------------------ *)

\* writers reserve and release; every thread flushes: the write timer's
\* journal_flush_write(), bch2_journal_flush(),
\* bch2_journal_flush_async(), and bch2_journal_flush_seq() and
\* bch2_journal_flush_seq_async() for an entry a reservation was granted in
\* (which is also what bch2_journal_meta() does after its res_get/res_put)
NextFlush ==
    \/ \E a \in 1..MaxU64s : ResGetCall(Writer, a, MaxU64s)
    \/ ResGetFast(Writer)
    \/ ResGetLocked(Writer)
    \/ ResPut(Writer)
    \/ \E t \in Threads : Returned(t)
    \/ \E t \in Threads : Wakeup(t)
    \/ \E t \in Threads : BufSwitchCAS(t)
    \/ \E t \in Threads : BufSwitchFinish(t)
    \/ \E t \in Threads : BufSwitchPut(t)
    \/ \E t \in Threads : BoundReached(t)
    \/ \E space \in EntrySizes : EntryOpen(Writer, space)
    \/ EntryOpenCAS(Writer)
    \/ Halt
    \/ \E ok \in BOOLEAN : WriteDone(ok)
    \/ \E t \in Threads : FlushWrite(t)
    \/ \E t \in Threads : FlushCall(t)
    \/ \E t \in Threads : FlushAsyncCall(t)
    \/ \E t \in Threads : FlushAsyncEnter(t)
    \/ \E t \in Threads : \E s \in 1..MaxSeq : FlushSeqCall(t, s)
    \/ \E t \in Threads : \E s \in 1..MaxSeq :
          /\ s \in granted
          /\ FlushSeqAsyncCall(t, s)
    \/ \E t \in Threads : SeqFlushed(t)
    \/ \E t \in Threads : FlushSeqAsyncRegister(t)
    \/ \E t \in Threads : WaitRecheck(t)

SpecFlush == Init /\ [][NextFlush]_vars

\* C26: for bch2_journal_flush(), bch2_journal_flush_async(), and for
\* bch2_journal_flush_seq() / bch2_journal_flush_seq_async() called with the
\* sequence number of a granted reservation, BUG_ON(seq > journal_cur_seq(j))
\* does not fire and journal_buf_switch() does not answer
\* JOURNAL_ENTRY_CLOSED while seq is the current sequence number
C26_FlushBugsUnreachable ==
    /\ panic \notin {"seq_gt_cur_seq", "entry_not_open"}
    /\ \A t \in Threads :
          (call[t].op \in {"flush_seq", "flush_seq_async"} /\ pc[t] # "done")
             => /\ call[t].seq <= journal_cur_seq
                /\ (pc[t] = "sw_cas" /\ lock = t)
                      => journal_buf_switch_result # "ENTRY_CLOSED"

\* bch2_journal_flush() chose entry 2 while it was open and is in
\* journal_buf_switch() for it, holding the lock, after a halt; entry 1 was
\* closed and written before
C26_Witness ==
    /\ panic = "none"
    /\ pc[2] = "sw_cas"
    /\ lock = 2
    /\ call[2].op = "flush_seq"
    /\ call[2].seq = 2
    /\ journal_cur_seq = 2
    /\ 2 \notin granted
    /\ written[1] = "ok"
    /\ bch2_journal_error

(* ---------- C27: the buffer that becomes current is unreserved -------- *)

\* C27: a buffer's reservation count is zero whenever prev_buf_unwritten is
\* 0 and the buffer is not the current one, so the buffer that the close in
\* journal_buf_switch() makes current has no outstanding reservation and
\* BUG_ON(journal_state_count(new, new.idx)) does not fire
C27_NextBufUnreserved ==
    /\ panic # "buf_switch_count"
    /\ reservations.prev_buf_unwritten = 0
          => journal_state_count(reservations, 1 - reservations.idx) = 0
    /\ \A t \in Threads :
          (pc[t] = "sw_cas" /\ lock = t /\ journal_buf_switch_result = "CLOSE")
             => journal_state_count(reservations, 1 - reservations.idx) = 0

\* the second close: buffer 0 has become the current buffer again, with no
\* reservation, while the buffer just closed carries the reference of
\* journal_buf_switch() and a reservation that is still held
C27_Witness ==
    \E t \in Threads :
        /\ pc[t] = "sw_fin"
        /\ sw[t].old_idx = 1
        /\ reservations.idx = 0
        /\ journal_state_count(reservations, 0) = 0
        /\ journal_state_count(reservations, 1) = 2
        /\ written[1] = "ok"

(* ---------- C28: j->lock around journal_buf_switch() ------------------ *)

\* the positions at which a thread holds j->lock
LockedPcs == {"sw_cas", "sw_fin", "open", "open_cas", "wos_reg", "fsa_reg",
              "wait_recheck"}

\* C28: journal_buf_switch() returns JOURNAL_UNLOCKED exactly when it has
\* released j->lock, and its callers journal_flush_write(),
\* __journal_res_get(), bch2_journal_flush_seq_async() and
\* journal_seq_flushed() release the lock exactly once on every path: a
\* thread holds the lock exactly at the positions between its spin_lock()
\* and its one spin_unlock(), the lock is released only by its holder, and
\* the path a caller takes after JOURNAL_UNLOCKED leaves the lock alone
C28_LockDiscipline ==
    [][/\ \A t \in Threads : (lock' = t) <=> (pc'[t] \in LockedPcs)
       /\ \A t \in Threads :
             /\ (pc'[t] = "sw_put" /\ pc[t] # "sw_put")
                   => pc[t] = "sw_fin" /\ lock = t /\ lock' = 0
             /\ (pc[t] = "sw_fin" /\ pc'[t] # "sw_fin") => pc'[t] = "sw_put"
             /\ (pc[t] = "sw_put" /\ pc'[t] # "sw_put") => lock' = lock
       /\ lock' # lock
             => \/ lock = 0 /\ pc[lock'] \notin LockedPcs
                \/ lock' = 0 /\ pc[lock] \in LockedPcs /\ pc'[lock] \notin LockedPcs]_vars

\* journal_buf_switch() called by bch2_journal_flush_seq_async() has closed
\* the entry and released the lock, and before it returns JOURNAL_UNLOCKED
\* the other thread has taken the lock
C28_Witness ==
    /\ pc[2] = "sw_put"
    /\ call[2].op = "flush_seq_async"
    /\ call[2].seq \in closed
    /\ lock = 1
    /\ panic = "none"

====
